---- MODULE Spec2Model ----
(***************************************************************************)
(* Generalized-cost engine of gcdm: provider aggregation with retries,     *)
(* the drive / ride / rail travel-time estimators, the Monte-Carlo risk    *)
(* terms and the per-origin batch of generalized_cost_delta.               *)
(*                                                                         *)
(* Units.  Minutes are carried as integers in hundredths of a minute, so   *)
(* that 0.25 * mean, 1.05 * mean, 1.2 * sd and the 0.75-quantile of the    *)
(* bounded inputs are exact.  Backoff waits are in milliseconds.  An       *)
(* Optional[float] is a sequence of length <= 1 (<<>> is None).            *)
(***************************************************************************)
EXTENDS Integers, Sequences, FiniteSets, TLC

VARIABLES
    pc,         \* control point of the running call
    ret,        \* who called estimate_drive_time_minutes: "top", "drive", "ride"
    providers,  \* the providers argument of estimate_drive_time_minutes: <<>> or <<ProviderConfig>>
    miles,      \* geodesic distance (tenths of a mile) of the running call
    slot,       \* aggregate_drive_minutes: index of the provider block being executed
    attempt,    \* tenacity attempt_number of the running provider call
    waits,      \* backoff sleeps (ms) of the running provider call
    vals,       \* aggregate_drive_minutes: vals
    calls,      \* history: one record per finished provider call of the running aggregation
    agg,        \* estimate_drive_time_minutes: agg (Optional)
    tiers,      \* history: fallback tiers consulted by the running estimate_drive_time_minutes
    rv,         \* Optional TravelRV returned by the last estimate_drive_time_minutes
    cfg,        \* generalized_cost_delta: the AppConfig of the run
    origins_df, \* generalized_cost_delta: the rows of origins_df, as indices into Origins
    airports,   \* generalized_cost_delta: the airports argument
    modes,      \* generalized_cost_delta: the modes argument
    rng,        \* state of the global numpy random generator
    oi,         \* index of the origin row being processed
    ai,         \* index of the airport being processed
    mi,         \* index of the mode being processed
    mode_rv,    \* dict mode -> TravelRV of the current origin and airport
    window,     \* t_depart_min, tmin_min, tmax_min of the current airport
    k_ctx,      \* context multiplier of the current origin (1.0 is 10000)
    comp,       \* Components of the last mode computed
    per_mode_gc,    \* dict mode -> generalized cost
    per_airport_gc, \* dict airport -> blended cost
    rows,       \* the rows appended so far
    exc,        \* the exception that left generalized_cost_delta, "" if none
    risk_in,    \* risk_with_shocks under test: samples, alpha and the fixed seed
    trials,     \* the evaluations made with those inputs: shocks and result
    ctx_in,     \* aggregate_context_multiplier: ProviderConfig and what the two services answer
    mults,      \* aggregate_context_multiplier: mults
    ctx_out,    \* Optional value aggregate_context_multiplier returned
    qsi_in,     \* the arguments of the QSI+ call under test
    qsi_out,    \* Optional result of that call
    runs        \* history: one record per finished run_qsi

travelVars == <<pc, ret, providers, miles, slot, attempt, waits, vals, calls, agg, tiers, rv>>

batchVars == <<cfg, origins_df, airports, modes, rng, oi, ai, mi, mode_rv, window, k_ctx, comp,
               per_mode_gc, per_airport_gc, rows, exc>>

riskVars == <<risk_in, trials>>

ctxVars == <<ctx_in, mults, ctx_out>>

qsiVars == <<qsi_in, qsi_out, runs>>

vars == <<travelVars, batchVars, riskVars, ctxVars, qsiVars>>

----------------------------------------------------------------------------
(* Bounded inputs *)

\* largest number of entries of a sample vector / list the bounded inputs use
MaxLen == 3

\* minutes (x100) a routing provider may answer; 0 is a real answer (duration 0)
ReplyMinutes == {0, 1200, 2800}

\* minutes (x100) the road-network shortest path may sum to
NetworkMinutes == {3200}

\* geodesic distance (tenths of a mile) of the pairs a single call is tried on
MilesSet == {28, 140}

----------------------------------------------------------------------------
(* aggregators.py *)

ProviderNames == <<"google", "ors", "mapbox">>

\* ProviderConfig as build_provider_config builds it (routing fields)
ProviderConfigs ==
    [enable_google : BOOLEAN, enable_openrouteservice : BOOLEAN, enable_mapbox : BOOLEAN,
     google_api_key : {"", "k"}, ors_api_key : {"", "k"}, mapbox_api_key : {"", "k"}]

\* the guard of each provider block of aggregate_drive_minutes
ProviderEnabled(p, name) ==
    CASE name = "google" -> p.enable_google /\ p.google_api_key # ""
      [] name = "ors"    -> p.enable_openrouteservice /\ p.ors_api_key # ""
      [] name = "mapbox" -> p.enable_mapbox /\ p.mapbox_api_key # ""

\* @retry(stop=stop_after_attempt(3), ...): attempts in total
StopAfterAttempt == 3

\* wait_exponential(multiplier=0.5, max=8), in milliseconds
WaitMultiplierMs == 500
WaitMaxMs == 8000

RECURSIVE Pow2(_)
Pow2(n) == IF n <= 0 THEN 1 ELSE 2 * Pow2(n - 1)

Min2(a, b) == IF a <= b THEN a ELSE b
Max2(a, b) == IF a >= b THEN a ELSE b

\* tenacity wait_exponential: multiplier * 2^(attempt_number - 1), capped at max
WaitExponential(n) == Min2(WaitMultiplierMs * Pow2(n - 1), WaitMaxMs)

\* a stop condition that allows a fourth attempt
ShouldStop_AfterFour(n) == n >= StopAfterAttempt + 1

\* tenacity stop_after_attempt: stop once attempt_number >= max_attempt_number
ShouldStop(n) == n >= StopAfterAttempt

\* Python truthiness of "if v:" for an Optional[float]
Truthy(v) == v # <<>> /\ v[1] # 0

RECURSIVE Insert(_, _)
Insert(s, x) ==
    IF s = <<>> THEN <<x>>
    ELSE IF x <= Head(s) THEN <<x>> \o s
    ELSE <<Head(s)>> \o Insert(Tail(s), x)

RECURSIVE SortAsc(_)
SortAsc(s) == IF s = <<>> THEN <<>> ELSE Insert(SortAsc(Tail(s)), Head(s))

\* np.quantile(x, num/den), linear interpolation between order statistics,
\* as a pair <<numerator, denominator>> of the exact value
QuantileFrac(s, num, den) ==
    LET srt  == SortAsc(s)
        n    == Len(s)
        pos  == num * (n - 1)
        lo   == pos \div den
        rest == pos % den
    IN  IF rest = 0 THEN <<srt[lo + 1] * den, den>>
        ELSE <<srt[lo + 1] * den + rest * (srt[lo + 2] - srt[lo + 1]), den>>

\* float(np.quantile(np.array(vals), 0.75)); exact on the bounded replies
Quantile75(s) == LET q == QuantileFrac(s, 3, 4) IN q[1] \div q[2]

\* a blend that answers 0.0 when nothing was collected
AggregateResult_ZeroWhenEmpty(v) == IF v = <<>> THEN <<0>> ELSE <<Quantile75(v)>>

\* the tail of aggregate_drive_minutes: None when vals is empty
AggregateResult(v) == IF v = <<>> THEN <<>> ELSE <<Quantile75(v)>>

----------------------------------------------------------------------------
(* travel.py *)

TravelRV(mean, sd) == [mean |-> mean, sd |-> sd]

\* provider and network tiers: sd = max(5.0, 0.25 * mean)
ProviderRV(mean) == TravelRV(mean, Max2(500, (25 * mean) \div 100))
NetworkRV(mean) == TravelRV(mean, Max2(500, (25 * mean) \div 100))

\* a heuristic at the rail speed of 30 mph
GeodesicRV_AtRailSpeed(tenths) ==
    LET mean == (tenths * 600) \div 30
    IN  TravelRV(mean, Max2(500, (30 * mean) \div 100))

\* straight-line heuristic: 35 mph, sd = max(5.0, 0.30 * mean)
GeodesicRV(tenths) ==
    LET mean == (tenths * 600) \div 35
    IN  TravelRV(mean, Max2(500, (30 * mean) \div 100))

\* estimate_ride_time_minutes: mean * 1.05, sd * 1.2 of the drive estimate it obtains
RideRV(drv) == TravelRV((drv.mean * 105) \div 100, (drv.sd * 12) \div 10)

\* a rail estimate whose sd is 0.20 * mean with no floor
RailRV_NoFloor(tenths) ==
    LET mean == (tenths * 600) \div 30
    IN  TravelRV(mean, (20 * mean) \div 100)

\* estimate_rail_time_minutes: 30 mph, sd = max(5.0, 0.20 * mean)
RailRV(tenths) ==
    LET mean == (tenths * 600) \div 30
    IN  TravelRV(mean, Max2(500, (20 * mean) \div 100))

----------------------------------------------------------------------------
(* One call of estimate_drive_time_minutes, step by step *)

\* what one attempt of google_drive_minutes / ors_drive_minutes /
\* mapbox_drive_minutes can do: raise ProviderError, return None, return minutes
AttemptReturns == {<<>>} \cup {<<m>> : m \in ReplyMinutes}

CallRecord(name, n, w, raised, value) ==
    [provider |-> name, attempts |-> n, waits |-> w, raised |-> raised, value |-> value]

\* estimate_drive_time_minutes, lines 27-28: providers given or not
EstimateDriveEnter ==
    /\ pc = "drive_entry"
    /\ vals' = <<>>
    /\ calls' = <<>>
    /\ agg' = <<>>
    /\ rv' = <<>>
    /\ attempt' = 1
    /\ waits' = <<>>
    /\ slot' = 1
    /\ IF providers # <<>>
       THEN pc' = "agg" /\ tiers' = <<"provider">>
       ELSE pc' = "network" /\ tiers' = <<>>
    /\ UNCHANGED <<ret, providers, miles, batchVars, riskVars, ctxVars, qsiVars>>

\* aggregate_drive_minutes: a provider block whose guard is false
AggSkip ==
    /\ pc = "agg"
    /\ slot <= Len(ProviderNames)
    /\ ~ProviderEnabled(providers[1], ProviderNames[slot])
    /\ slot' = slot + 1
    /\ UNCHANGED <<pc, ret, providers, miles, attempt, waits, vals, calls, agg, tiers, rv, batchVars, riskVars, ctxVars, qsiVars>>

\* an attempt raises ProviderError and tenacity retries after the backoff
ProviderRetry ==
    /\ pc = "agg"
    /\ slot <= Len(ProviderNames)
    /\ ProviderEnabled(providers[1], ProviderNames[slot])
    /\ ~ShouldStop(attempt)
    /\ waits' = Append(waits, WaitExponential(attempt))
    /\ attempt' = attempt + 1
    /\ UNCHANGED <<pc, ret, providers, miles, slot, vals, calls, agg, tiers, rv, batchVars, riskVars, ctxVars, qsiVars>>

\* the last attempt raises: reraise=True surfaces ProviderError, which the
\* except clause of aggregate_drive_minutes swallows
ProviderGiveUp ==
    /\ pc = "agg"
    /\ slot <= Len(ProviderNames)
    /\ ProviderEnabled(providers[1], ProviderNames[slot])
    /\ ShouldStop(attempt)
    /\ calls' = Append(calls, CallRecord(ProviderNames[slot], attempt, waits, TRUE, <<>>))
    /\ slot' = slot + 1
    /\ attempt' = 1
    /\ waits' = <<>>
    /\ UNCHANGED <<pc, ret, providers, miles, vals, agg, tiers, rv, batchVars, riskVars, ctxVars, qsiVars>>

\* what "if v: vals.append(v)" leaves in vals
Collect(v, answer) == IF Truthy(answer) THEN Append(v, answer[1]) ELSE v

\* an attempt returns (None or minutes): no further attempt is made
ProviderReturn ==
    /\ pc = "agg"
    /\ slot <= Len(ProviderNames)
    /\ ProviderEnabled(providers[1], ProviderNames[slot])
    /\ \E answer \in AttemptReturns :
          /\ vals' = Collect(vals, answer)
          /\ calls' = Append(calls, CallRecord(ProviderNames[slot], attempt, waits, FALSE, answer))
    /\ slot' = slot + 1
    /\ attempt' = 1
    /\ waits' = <<>>
    /\ UNCHANGED <<pc, ret, providers, miles, agg, tiers, rv, batchVars, riskVars, ctxVars, qsiVars>>

\* a return that falls through to the road network whatever the blend is
AggregateReturn_IgnoresEstimate ==
    /\ pc = "agg"
    /\ slot > Len(ProviderNames)
    /\ agg' = AggregateResult(vals)
    /\ pc' = "network"
    /\ UNCHANGED <<ret, providers, miles, slot, attempt, waits, vals, calls, tiers, rv,
                   batchVars, riskVars, ctxVars, qsiVars>>

\* aggregate_drive_minutes returns; estimate_drive_time_minutes tests "agg is not None"
AggregateReturn ==
    /\ pc = "agg"
    /\ slot > Len(ProviderNames)
    /\ agg' = AggregateResult(vals)
    /\ IF AggregateResult(vals) # <<>>
       THEN /\ rv' = <<ProviderRV(AggregateResult(vals)[1])>>
            /\ pc' = "drive_ret"
       ELSE /\ rv' = rv
            /\ pc' = "network"
    /\ UNCHANGED <<ret, providers, miles, slot, attempt, waits, vals, calls, tiers, batchVars, riskVars, ctxVars, qsiVars>>

\* the road-network tier finds a route
NetworkTierOk ==
    /\ pc = "network"
    /\ \E m \in NetworkMinutes : rv' = <<NetworkRV(m)>>
    /\ tiers' = Append(tiers, "network")
    /\ pc' = "drive_ret"
    /\ UNCHANGED <<ret, providers, miles, slot, attempt, waits, vals, calls, agg, batchVars, riskVars, ctxVars, qsiVars>>

\* the road-network tier raises: the except clause computes the geodesic heuristic
NetworkTierFail ==
    /\ pc = "network"
    /\ rv' = <<GeodesicRV(miles)>>
    /\ tiers' = tiers \o <<"network", "geodesic">>
    /\ pc' = "drive_ret"
    /\ UNCHANGED <<ret, providers, miles, slot, attempt, waits, vals, calls, agg, batchVars, riskVars, ctxVars, qsiVars>>

EstimateDriveStep ==
    \/ EstimateDriveEnter
    \/ AggSkip
    \/ ProviderRetry
    \/ ProviderGiveUp
    \/ ProviderReturn
    \/ AggregateReturn
    \/ NetworkTierOk
    \/ NetworkTierFail

----------------------------------------------------------------------------
(* risk.py *)

RECURSIVE SumSeq(_)
SumSeq(s) == IF s = <<>> THEN 0 ELSE Head(s) + SumSeq(Tail(s))

\* samples[samples >= q] for a quantile q = <<numerator, denominator>>
TailOf(samples, q) == SelectSeq(samples, LAMBDA x : x * q[2] >= q[1])

\* the mean of all the samples in place of the mean of the tail
Cvar_MeanOfAll(samples, alpha) ==
    IF samples = <<>> THEN <<0, 1>> ELSE <<SumSeq(samples), Len(samples)>>

\* cvar(samples, alpha) as an exact fraction <<numerator, denominator>>
Cvar(samples, alpha) ==
    IF samples = <<>> THEN <<0, 1>>
    ELSE LET q    == QuantileFrac(samples, alpha[1], alpha[2])
             tail == TailOf(samples, q)
         IN  IF tail = <<>> THEN q ELSE <<SumSeq(tail), Len(tail)>>

\* cvar_minus_mean(samples, alpha) as an exact fraction
CvarMinusMean(samples, alpha) ==
    IF samples = <<>> THEN <<0, 1>>
    ELSE LET c == Cvar(samples, alpha)
         IN  <<c[1] * Len(samples) - SumSeq(samples) * c[2], c[2] * Len(samples)>>

\* the global numpy generator: a full-period congruential generator on 0..15
RngNext(r) == (5 * r + 3) % 16

RECURSIVE RngStream(_, _)
RngStream(r, n) == IF n = 0 THEN <<>> ELSE <<r>> \o RngStream(RngNext(r), n - 1)

RECURSIVE RngSkip(_, _)
RngSkip(r, n) == IF n = 0 THEN r ELSE RngSkip(RngNext(r), n - 1)

\* np.random.rand(n): uniform draws, in percent
RandPercent(r, n) == [i \in 1..n |-> (RngStream(r, n)[i] * 100) \div 16]

\* np.random.normal(0, 1, n): standard deviates, here -1, 0 or 1
RandNormal(r, n) == [i \in 1..n |-> (RngStream(r, n)[i] % 3) - 1]

\* draws that are not clipped at the lower bound
GaussianSamples_Unclipped(mean, sd, size, r) ==
    [i \in 1..size |-> mean + sd * RandNormal(r, size)[i]]

\* gaussian_samples(mean, sd, size, lower=0.0): draws clipped below at lower
GaussianSamples(mean, sd, size, r) ==
    [i \in 1..size |-> Max2(0, mean + sd * RandNormal(r, size)[i])]

\* does apply_shocks draw from the generator (no early return)?
ShocksDraw(prob, minutes) == ~(prob <= 0 \/ minutes <= 0)

\* apply_shocks(samples, shock_prob, shock_minutes) with the generator in state r
ApplyShocks(samples, prob, minutes, r) ==
    IF ~ShocksDraw(prob, minutes) THEN samples
    ELSE [i \in 1..Len(samples) |->
             IF RandPercent(r, Len(samples))[i] < prob
             THEN samples[i] + minutes ELSE samples[i]]

RECURSIVE Gcd(_, _)
Gcd(a, b) == IF b = 0 THEN a ELSE Gcd(b, a % b)

Abs(a) == IF a < 0 THEN -a ELSE a

\* an exact fraction in lowest terms
Reduce(f) ==
    LET g == Gcd(Abs(f[1]), f[2])
    IN  <<f[1] \div g, f[2] \div g>>

\* a + b of exact fractions
FracAdd(a, b) ==
    LET x == Reduce(a)
        y == Reduce(b)
    IN  Reduce(<<x[1] * y[2] + y[1] * x[2], x[2] * y[2]>>)

\* a <= b of exact fractions with positive denominators
FracLeq(a, b) == a[1] * b[2] <= b[1] * a[2]

\* risk_with_shocks(cfg, A_samples, P_samples): rho in percent, shocks the
\* dict cfg.risk.shocks, r the generator state on entry; an exact fraction
RiskWithShocks(alpha, rho, shocks, A, P, r) ==
    LET A_shocked == ApplyShocks(A, shocks.incident_prob, shocks.incident_minutes, r)
        r2        == IF ShocksDraw(shocks.incident_prob, shocks.incident_minutes)
                     THEN RngSkip(r, Len(A)) ELSE r
        P_shocked == ApplyShocks(P, shocks.rail_disruption_prob,
                                 shocks.rail_disruption_minutes, r2)
        d         == FracAdd(CvarMinusMean(A_shocked, alpha), CvarMinusMean(P_shocked, alpha))
    IN  Reduce(<<rho * d[1], 100 * d[2]>>)

----------------------------------------------------------------------------
(* Floats that may be NaN or +inf: money (cents) of the cost terms *)

Num(n) == [k |-> "num", v |-> n]
NaN == [k |-> "nan", v |-> 0]
PosInf == [k |-> "inf", v |-> 0]

\* np.isfinite
IsFinite(x) == x.k = "num"

\* IEEE x + y on these values
ExtAdd(x, y) ==
    IF x.k = "nan" \/ y.k = "nan" THEN NaN
    ELSE IF x.k = "inf" \/ y.k = "inf" THEN PosInf
    ELSE Num(x.v + y.v)

\* IEEE c * x for an integer c > 0
ExtScale(c, x) == IF x.k = "num" THEN Num(c * x.v) ELSE x

\* IEEE y < x: every comparison with NaN is False
ExtLess(y, x) ==
    /\ x.k # "nan"
    /\ y.k = "num"
    /\ (x.k = "inf" \/ y.v < x.v)

\* Python's builtin min(x, y): y if y < x else x
PyMin(x, y) == IF ExtLess(y, x) THEN y ELSE x

----------------------------------------------------------------------------
(* data.py, config.py: the inputs of a run *)

\* AIRPORTS: lon, lat in 1e-4 degrees
AIRPORTS ==
    [HVN |-> [lon |-> -728870, lat |-> 412630],
     JFK |-> [lon |-> -737781, lat |-> 406413],
     LGA |-> [lon |-> -738733, lat |-> 407769],
     EWR |-> [lon |-> -741745, lat |-> 406895]]

\* the origins of the batch (zip, lon, lat in 1e-4 degrees) and the geodesic
\* distance geopy reports from each to each airport, in tenths of a mile
Origins ==
    <<[zip |-> "06511", lon |-> -729000, lat |-> 413000,
       geodesic |-> [HVN |-> 28, JFK |-> 665, LGA |-> 637, EWR |-> 791]],
      [zip |-> "06830", lon |-> -736200, lat |-> 410300,
       geodesic |-> [HVN |-> 476, JFK |-> 280, LGA |-> 245, EWR |-> 385]],
      [zip |-> "06103", lon |-> -726700, lat |-> 417700,
       geodesic |-> [HVN |-> 350, JFK |-> 980, LGA |-> 945, EWR |-> 1085]]>>

\* number of origin rows in origins_df
NumOrigins == 2

\* the numeric configuration of the run (cents, minutes x100, percent)
Params ==
    [NA |-> 2, NC |-> 1, vA_usd_per_hour |-> 45, vC_usd_per_hour |-> 30,
     lambda_child_pct |-> 50,
     alpha |-> <<9, 10>>, rho_pct |-> 100,
     k_weather_pct |-> 100, k_event_pct |-> 100, k_construction_pct |-> 100,
     cmile |-> 67, rem_lot_fee |-> 0, shuttle_fee |-> 0, drive_fare_risk |-> 500,
     parking_weekly |-> [HVN |-> 6000, JFK |-> 21000, LGA |-> 23000, EWR |-> 19000],
     surge_pct |-> 100, base_fare |-> 300, per_mile |-> 150, per_minute |-> 30,
     booking_fee |-> 200, tip_pct |-> 15, ride_fare_risk |-> 200,
     adult_fare |-> 1500, child_fare |-> 750, transfer_fare |-> 275,
     airtrain |-> [JFK |-> 850, EWR |-> 825], station_parking |-> 1000,
     miss_prob_base_pct |-> 5, miss_slope_pct |-> 1, headway_minutes |-> 2000,
     security_mean |-> [HVN |-> 1000, JFK |-> 2500],
     bag_drop_mean |-> [checked |-> 800],
     walk_mean |-> [HVN |-> 500, JFK |-> 1500],
     omega_peak_pct |-> 125, omega_night_pct |-> 150,
     carbon_enabled |-> TRUE, social_cost_per_ton |-> 5000,
     emissions_g_per_mile |-> [drive |-> 400, ride |-> 450, rail |-> 100],
     shocks |-> [incident_prob |-> 50, incident_minutes |-> 3000,
                 rail_disruption_prob |-> 0, rail_disruption_minutes |-> 0]]

\* dict.get(key, default)
Get(d, key, default) == IF key \in DOMAIN d THEN d[key] ELSE default

\* generalized_cost_delta's defaults: luggage="none", r_legs=1, duration_days=3.0
Luggage == "none"
RLegs == 1
DurationDays == 3

\* size of a sample vector drawn by gaussian_samples (the code draws 2000)
SampleSize == 2

----------------------------------------------------------------------------
(* components.py *)

\* party_vot_per_minute, in cents per hundredth of a minute
PartyVot ==
    (Params.NA * Params.vA_usd_per_hour + Params.NC * Params.vC_usd_per_hour) \div 60

\* np.ceil(a / b) for positive integers
CeilDiv(a, b) == (a + b - 1) \div b

\* cash_drive raises KeyError when the airport is missing from a parking table
CashDriveRaises(c, airport) ==
    airport \notin DOMAIN c.parking_daily \/ airport \notin DOMAIN Params.parking_weekly

\* cash_drive(cfg, airport, distance_miles, duration_days); dist in tenths of a mile
CashDrive(c, airport, dist, days) ==
    LET D     == Max2(1, days)
        park  == PyMin(ExtScale(CeilDiv(D, 1), c.parking_daily[airport]),
                       Num(CeilDiv(D, 7) * Params.parking_weekly[airport]))
        vehop == (Params.cmile * 2 * dist) \div 10
    IN  ExtAdd(park, Num(vehop + Params.rem_lot_fee + Params.shuttle_fee
                         + Params.drive_fare_risk))

\* cash_ride(cfg, airport, distance_miles, mean_minutes)
CashRide(airport, dist, mean) ==
    LET cost == (Params.surge_pct
                   * (Params.base_fare + (Params.per_mile * 2 * dist) \div 10
                      + (Params.per_minute * 2 * mean) \div 100 + Params.booking_fee)) \div 100
                + Params.ride_fare_risk
    IN  Num(cost + (Params.tip_pct * cost) \div 100)

\* cash_rail(cfg, airport)
CashRail(airport) ==
    Num(Params.adult_fare * Params.NA + Params.child_fare * Params.NC
        + (Params.NA + Params.NC) * (Params.transfer_fare + Get(Params.airtrain, airport, 0))
        + Params.station_parking)

\* _tod_multiplier: no band configured, every band defaults to party_vot_per_minute
TodMultiplier == (40 * PartyVot + 50 * PartyVot + 10 * PartyVot) \div 100

\* timeval(cfg, r, access_mean_min, proc_mean_min)
Timeval(r, access_mean, proc_mean) == TodMultiplier * r * (access_mean + proc_mean)

\* compute_proc_mean_minutes(cfg, airport, luggage)
ProcMean(airport, luggage) ==
    Get(Params.security_mean, airport, 1500) + Get(Params.bag_drop_mean, luggage, 0)
    + Get(Params.walk_mean, airport, 1000)

\* the sd both callers pass for the process samples: max(2.0, 0.2 * proc_mean)
ProcSd(proc_mean) == Max2(200, (20 * proc_mean) \div 100)

\* risk_component(cfg, r, access_rv, proc_mean_min), generator state r0 on entry
RiskComponent(r, access_rv, proc_mean, r0) ==
    LET A == GaussianSamples(access_rv.mean, access_rv.sd, SampleSize, r0)
        P == GaussianSamples(proc_mean, ProcSd(proc_mean), SampleSize, RngSkip(r0, SampleSize))
        d == FracAdd(CvarMinusMean(A, Params.alpha), CvarMinusMean(P, Params.alpha))
        k == (((Params.k_weather_pct * Params.k_event_pct) \div 100)
                 * Params.k_construction_pct) \div 100
    IN  (((k * Params.rho_pct) \div 100) * PartyVot * r * (d[1] \div d[2])) \div 100

\* schedule_alignment(cfg, airport, t_depart_min, access_rv, tmin_min, tmax_min)
ScheduleAlignment(t_depart, access_rv, tmin, tmax, r0) ==
    LET A   == GaussianSamples(access_rv.mean, access_rv.sd, SampleSize, r0)
        phi == [i \in 1..SampleSize |->
                   1 * Max2(tmin - (t_depart - A[i]), 0)
                   + 2 * Max2((t_depart - A[i]) - tmax, 0)]
    IN  PartyVot * (SumSeq(phi) \div SampleSize)

\* transfer_handling(cfg, airport, has_checked_bag, r)
TransferHandling(has_checked_bag, r) ==
    LET miss == Max2(0, Min2(90, Params.miss_prob_base_pct + Params.miss_slope_pct * 5))
        xfer == ((100 * Params.NA + Params.lambda_child_pct * Params.NC)
                   * PartyVot * miss * Params.headway_minutes) \div (100 * 100)
        bag  == IF has_checked_bag THEN PartyVot * (1000 + (Params.rho_pct * 500) \div 100) ELSE 0
    IN  xfer + bag + PartyVot * r * 500

\* comfort(cfg, r, access_mean_min)
Comfort(r, access_mean) ==
    LET omega == ((Params.omega_peak_pct - 100) * 40 + (Params.omega_night_pct - 100) * 10) \div 100
    IN  (PartyVot * r * access_mean * omega) \div 100

\* carbon(cfg, mode, distance_miles)
Carbon(mode, dist) ==
    IF ~Params.carbon_enabled THEN 0
    ELSE (((Params.social_cost_per_ton * Get(Params.emissions_g_per_mile, mode, 0)) \div 1000)
             * 2 * dist) \div (1000 * 10)

----------------------------------------------------------------------------
(* model.py *)

RECURSIVE SqrtSearch(_, _, _)
SqrtSearch(n, lo, hi) ==
    IF lo >= hi THEN lo
    ELSE LET mid == (lo + hi + 1) \div 2
         IN  IF mid * mid <= n THEN SqrtSearch(n, mid, hi) ELSE SqrtSearch(n, lo, mid - 1)

\* np.hypot((lon - alon) * 54.6, (lat - alat) * 69.0), in tenths of a mile
DistMiles(lon, lat, alon, alat) ==
    LET dx == ((lon - alon) * 546) \div 10000
        dy == ((lat - alat) * 690) \div 10000
    IN  SqrtSearch(dx * dx + dy * dy, 0, 4000)

\* d[k] = v on a dict
Put(d, key, v) == [x \in DOMAIN d \cup {key} |-> IF x = key THEN v ELSE d[x]]

\* a parser that accepts any hour and minute fields
IsoParse_AnyFields(ts) == IF ts = <<>> THEN <<>> ELSE <<60 * ts[1].hh + ts[1].mm>>

\* dateutil isoparse of a timestamp text: <<minute of the day>>, or <<>> when it raises
\* (None, empty or out-of-range fields)
IsoParse(ts) ==
    IF ts = <<>> THEN <<>>
    ELSE IF ts[1].hh \in 0..23 /\ ts[1].mm \in 0..59 THEN <<60 * ts[1].hh + ts[1].mm>>
    ELSE <<>>

DefaultWindow == [t_depart_min |-> 0, tmin_min |-> 6000, tmax_min |-> 12000]

\* lines 83-93: the curb window relative to departure, the default on any exception
\* (a timestamp that does not parse, an airport without a window, aware minus naive)
ScheduleWindow(c, a) ==
    IF a \notin DOMAIN c.curb_windows THEN DefaultWindow
    ELSE LET dep == c.t_depart_iso
             w   == c.curb_windows[a]
         IN  IF IsoParse(dep) = <<>> \/ IsoParse(w.tmin) = <<>> \/ IsoParse(w.tmax) = <<>>
             THEN DefaultWindow
             ELSE IF w.tmin[1].tz # dep[1].tz \/ w.tmax[1].tz # dep[1].tz
             THEN DefaultWindow
             ELSE [t_depart_min |-> 0,
                   tmin_min |-> 100 * (IsoParse(w.tmin)[1] - IsoParse(dep)[1]),
                   tmax_min |-> 100 * (IsoParse(w.tmax)[1] - IsoParse(dep)[1])]

\* the values of a dict, as a sequence
RECURSIVE ValuesOf(_, _)
ValuesOf(d, keys) ==
    IF keys = {} THEN <<>>
    ELSE LET key == CHOOSE x \in keys : TRUE
         IN  <<d[key]>> \o ValuesOf(d, keys \ {key})

RECURSIVE MinOf(_)
MinOf(s) == IF Len(s) = 1 THEN s[1] ELSE Min2(s[1], MinOf(Tail(s)))

\* (1/mu) * ln(1 + exp(-mu * gap)) in cents for cfg.softmin.mu = 0.1 per dollar,
\* tabulated at gaps of 0, 5, 10, 20, 30 and 50 dollars
SoftminCorr(gap) ==
    IF gap < 500 THEN 693
    ELSE IF gap < 1000 THEN 474
    ELSE IF gap < 2000 THEN 313
    ELSE IF gap < 3000 THEN 127
    ELSE IF gap < 5000 THEN 49
    ELSE 0

\* softmin of two numbers: min(a, b) - (1/mu) * ln(1 + exp(-mu * |a - b|))
Softmin2(a, b) == Min2(a, b) - SoftminCorr(Max2(a, b) - Min2(a, b))

\* -1/mu * ln(sum(exp(-mu * v))) folds over the values two at a time
RECURSIVE SoftminNums(_)
SoftminNums(s) == IF Len(s) = 1 THEN s[1] ELSE Softmin2(s[1], SoftminNums(Tail(s)))

\* softmin(values, mu): NaN if a value is NaN, +inf when no value is finite
\* (the empty list included), +inf values contribute exp(-inf) = 0
Softmin(values) ==
    LET finite == SelectSeq(values, LAMBDA x : x.k = "num")
    IN  IF \E i \in 1..Len(values) : values[i].k = "nan" THEN NaN
        ELSE IF finite = <<>> THEN PosInf
        ELSE Num(SoftminNums([i \in 1..Len(finite) |-> finite[i].v]))

\* np.min in place of np.nanmin: NaN as soon as one value is NaN
NanMin_Propagating(others) ==
    LET nums == SelectSeq(others, LAMBDA x : x.k = "num")
    IN  IF \E i \in 1..Len(others) : others[i].k = "nan" THEN NaN
        ELSE IF nums = <<>> THEN PosInf
        ELSE Num(MinOf([i \in 1..Len(nums) |-> nums[i].v]))

\* float(np.nanmin(others)): the least value that is not NaN, NaN if all are NaN
NanMin(others) ==
    LET notnan == SelectSeq(others, LAMBDA x : x.k # "nan")
        nums   == SelectSeq(others, LAMBDA x : x.k = "num")
    IN  IF notnan = <<>> THEN NaN
        ELSE IF nums = <<>> THEN PosInf
        ELSE Num(MinOf([i \in 1..Len(nums) |-> nums[i].v]))

\* lines 131-134: hvn, best_other and delta of one origin
DeltaGc(gc) ==
    LET hvn    == Get(gc, "HVN", NaN)
        others == ValuesOf(gc, DOMAIN gc \ {"HVN"})
        best   == IF Len(others) > 0 THEN NanMin(others) ELSE NaN
    IN  IF IsFinite(hvn) /\ IsFinite(best) THEN Num(hvn.v - best.v) ELSE NaN

\* compute_components_for_mode, generator state r0 on entry
ComputeComponentsForMode(c, m, a, dist, access_rv, win, r0) ==
    LET proc_mean == ProcMean(a, Luggage)
    IN  [cash    |-> CASE m = "drive" -> CashDrive(c, a, dist, DurationDays)
                       [] m = "ride"  -> CashRide(a, dist, access_rv.mean)
                       [] OTHER       -> CashRail(a),
         timeval |-> Timeval(RLegs, access_rv.mean, proc_mean),
         risk    |-> RiskComponent(RLegs, access_rv, proc_mean, r0),
         sched   |-> ScheduleAlignment(win.t_depart_min, access_rv, win.tmin_min,
                                       win.tmax_min, RngSkip(r0, 2 * SampleSize)),
         xfer    |-> TransferHandling(Luggage = "checked", RLegs),
         comfort |-> Comfort(RLegs, access_rv.mean),
         carbon  |-> Carbon(m, dist)]

\* lines 116-119: risk_with_shocks on fresh samples, times party value of time,
\* legs and context multiplier; generator state r0 on entry
RiskDelta(a, access_rv, k, r0) ==
    LET proc_mean == ProcMean(a, Luggage)
        A  == GaussianSamples(access_rv.mean, access_rv.sd, SampleSize, r0)
        P  == GaussianSamples(proc_mean, ProcSd(proc_mean), SampleSize, RngSkip(r0, SampleSize))
        rk == RiskWithShocks(Params.alpha, Params.rho_pct, Params.shocks, A, P,
                             RngSkip(r0, 2 * SampleSize))
    IN  ((rk[1] \div rk[2]) * PartyVot * RLegs * k) \div 10000

\* the analytic comp.risk kept in the total next to the shock-aware term
CompAdjTotal_WithRisk(cp, risk_delta) ==
    ExtAdd(cp.cash, Num(cp.timeval + cp.risk + risk_delta + cp.sched + cp.xfer + cp.comfort
                        + cp.carbon))

\* line 121: comp_adj_total
CompAdjTotal(cp, risk_delta) ==
    ExtAdd(cp.cash, Num(cp.timeval + risk_delta + cp.sched + cp.xfer + cp.comfort + cp.carbon))

\* draws one mode consumes: risk_component 2, schedule_alignment 1, lines 116-117 2,
\* and one per apply_shocks that does not return early
DrawsPerMode ==
    SampleSize * (5 + (IF ShocksDraw(Params.shocks.incident_prob, Params.shocks.incident_minutes)
                       THEN 1 ELSE 0)
                    + (IF ShocksDraw(Params.shocks.rail_disruption_prob,
                                     Params.shocks.rail_disruption_minutes)
                       THEN 1 ELSE 0))

\* the exception one pass of the mode loop raises, "" if none
ModeFailure(c, m, a, mrv) ==
    IF m \notin DOMAIN mrv THEN "KeyError"
    ELSE IF m = "drive" /\ CashDriveRaises(c, a) THEN "KeyError"
    ELSE IF "modes.rail.miss_slope" \notin c.attrs THEN "AttributeError"
    ELSE IF "risk.shocks" \notin c.attrs THEN "AttributeError"
    ELSE ""

Origin == Origins[origins_df[oi]]
Airport == airports[ai]
DistHere == DistMiles(Origin.lon, Origin.lat, AIRPORTS[Airport].lon, AIRPORTS[Airport].lat)

\* lines 62-67: airports_gdf raises KeyError on a code AIRPORTS does not hold
GcdEnter ==
    /\ pc = "gcd_entry"
    /\ IF \E i \in 1..Len(airports) : airports[i] \notin DOMAIN AIRPORTS
       THEN pc' = "raised" /\ exc' = "KeyError"
       ELSE pc' = "origin" /\ exc' = exc
    /\ rows' = <<>>
    /\ oi' = 1
    /\ UNCHANGED <<ret, providers, miles, slot, attempt, waits, vals, calls, agg, tiers, rv,
                   cfg, origins_df, airports, modes, rng, ai, mi, mode_rv, window, k_ctx, comp,
                   per_mode_gc, per_airport_gc, riskVars, ctxVars, qsiVars>>

\* line 68: the next origin row
OriginNext ==
    /\ pc = "origin"
    /\ oi <= Len(origins_df)
    /\ per_airport_gc' = <<>>
    /\ ai' = 1
    /\ pc' = "airport"
    /\ UNCHANGED <<ret, providers, miles, slot, attempt, waits, vals, calls, agg, tiers, rv,
                   cfg, origins_df, airports, modes, rng, oi, mi, mode_rv, window, k_ctx, comp,
                   per_mode_gc, rows, exc, riskVars, ctxVars, qsiVars>>

\* line 137: every origin done
GcdReturn ==
    /\ pc = "origin"
    /\ oi > Len(origins_df)
    /\ pc' = "gcd_done"
    /\ UNCHANGED <<ret, providers, miles, slot, attempt, waits, vals, calls, agg, tiers, rv,
                   batchVars, riskVars, ctxVars, qsiVars>>

\* lines 73-78: the next airport; estimate_drive_time_minutes(..., providers=providers)
AirportNext ==
    /\ pc = "airport"
    /\ ai <= Len(airports)
    /\ mode_rv' = <<>>
    /\ ret' = "drive"
    /\ providers' = <<cfg.providers>>
    /\ miles' = Origin.geodesic[Airport]
    /\ pc' = "drive_entry"
    /\ UNCHANGED <<slot, attempt, waits, vals, calls, agg, tiers, rv,
                   cfg, origins_df, airports, modes, rng, oi, ai, mi, window, k_ctx, comp,
                   per_mode_gc, per_airport_gc, rows, exc, riskVars, ctxVars, qsiVars>>

\* lines 78-79: mode_rv["drive"] is set; estimate_ride_time_minutes(lon, lat, alon, alat)
\* calls estimate_drive_time_minutes with no providers argument
DriveReturn ==
    /\ pc = "drive_ret"
    /\ ret = "drive"
    /\ mode_rv' = Put(mode_rv, "drive", rv[1])
    /\ ret' = "ride"
    /\ providers' = <<>>
    /\ pc' = "drive_entry"
    /\ UNCHANGED <<miles, slot, attempt, waits, vals, calls, agg, tiers, rv,
                   cfg, origins_df, airports, modes, rng, oi, ai, mi, window, k_ctx, comp,
                   per_mode_gc, per_airport_gc, rows, exc, riskVars, ctxVars, qsiVars>>

\* lines 79-80: mode_rv["ride"] from the drive estimate the ride call obtained, mode_rv["rail"]
RideReturn ==
    /\ pc = "drive_ret"
    /\ ret = "ride"
    /\ mode_rv' = Put(Put(mode_rv, "ride", RideRV(rv[1])), "rail", RailRV(miles))
    /\ pc' = "schedule"
    /\ UNCHANGED <<ret, providers, miles, slot, attempt, waits, vals, calls, agg, tiers, rv,
                   cfg, origins_df, airports, modes, rng, oi, ai, mi, window, k_ctx, comp,
                   per_mode_gc, per_airport_gc, rows, exc, riskVars, ctxVars, qsiVars>>

\* lines 83-93
ParseSchedule ==
    /\ pc = "schedule"
    /\ window' = ScheduleWindow(cfg, Airport)
    /\ pc' = "context"
    /\ UNCHANGED <<ret, providers, miles, slot, attempt, waits, vals, calls, agg, tiers, rv,
                   cfg, origins_df, airports, modes, rng, oi, ai, mi, mode_rv, k_ctx, comp,
                   per_mode_gc, per_airport_gc, rows, exc, riskVars, ctxVars, qsiVars>>

\* weather_context_multiplier: clip(mult, 1.0, 2.0), 1.0 on any exception (percent)
WeatherMults == {100, 200}

\* events_context_multiplier: 1.3, 1.15, 1.05 or 1.0, 1.0 on any exception (percent)
EventMults == {100, 105, 115, 130}

\* aggregate_context_multiplier(origin, providers): the product, 1.0 is 10000
ContextMultSet(p) ==
    {w * e : w \in (IF p.enable_weather /\ p.owm_api_key # "" THEN WeatherMults ELSE {100}),
             e \in (IF p.enable_events /\ p.ticketmaster_api_key # "" THEN EventMults ELSE {100})}

\* line 96, and the mode loop starts
ContextMultiplier ==
    /\ pc = "context"
    /\ \E k \in ContextMultSet(cfg.providers) : k_ctx' = k
    /\ per_mode_gc' = <<>>
    /\ mi' = 1
    /\ pc' = "mode"
    /\ UNCHANGED <<ret, providers, miles, slot, attempt, waits, vals, calls, agg, tiers, rv,
                   cfg, origins_df, airports, modes, rng, oi, ai, mode_rv, window, comp,
                   per_airport_gc, rows, exc, riskVars, ctxVars, qsiVars>>

\* lines 100-123: one mode, no exception
ModeOk ==
    /\ pc = "mode"
    /\ mi <= Len(modes)
    /\ ModeFailure(cfg, modes[mi], Airport, mode_rv) = ""
    /\ LET m  == modes[mi]
           cp == ComputeComponentsForMode(cfg, m, Airport, DistHere, mode_rv[m], window, rng)
           rd == RiskDelta(Airport, mode_rv[m], k_ctx, RngSkip(rng, 3 * SampleSize))
       IN  /\ comp' = cp
           /\ per_mode_gc' = Put(per_mode_gc, m, CompAdjTotal(cp, rd))
    /\ rng' = RngSkip(rng, DrawsPerMode)
    /\ mi' = mi + 1
    /\ UNCHANGED <<pc, ret, providers, miles, slot, attempt, waits, vals, calls, agg, tiers, rv,
                   cfg, origins_df, airports, modes, oi, ai, mode_rv, window, k_ctx,
                   per_airport_gc, rows, exc, riskVars, ctxVars, qsiVars>>

\* lines 100-123: one mode raises; nothing in generalized_cost_delta catches it
ModeRaise ==
    /\ pc = "mode"
    /\ mi <= Len(modes)
    /\ ModeFailure(cfg, modes[mi], Airport, mode_rv) # ""
    /\ exc' = ModeFailure(cfg, modes[mi], Airport, mode_rv)
    /\ pc' = "raised"
    /\ UNCHANGED <<ret, providers, miles, slot, attempt, waits, vals, calls, agg, tiers, rv,
                   cfg, origins_df, airports, modes, rng, oi, ai, mi, mode_rv, window, k_ctx, comp,
                   per_mode_gc, per_airport_gc, rows, riskVars, ctxVars, qsiVars>>

\* lines 125-129: the modes are blended, the airport is done
SoftminStep ==
    /\ pc = "mode"
    /\ mi > Len(modes)
    /\ per_airport_gc' = Put(per_airport_gc, Airport,
                              Softmin(ValuesOf(per_mode_gc, DOMAIN per_mode_gc)))
    /\ ai' = ai + 1
    /\ pc' = "airport"
    /\ UNCHANGED <<ret, providers, miles, slot, attempt, waits, vals, calls, agg, tiers, rv,
                   cfg, origins_df, airports, modes, rng, oi, mi, mode_rv, window, k_ctx, comp,
                   per_mode_gc, rows, exc, riskVars, ctxVars, qsiVars>>

\* lines 131-135: the row of the origin
AppendRow ==
    /\ pc = "airport"
    /\ ai > Len(airports)
    /\ rows' = Append(rows, [zip |-> Origin.zip, lon |-> Origin.lon, lat |-> Origin.lat,
                             delta_gc |-> DeltaGc(per_airport_gc), GC |-> per_airport_gc])
    /\ oi' = oi + 1
    /\ pc' = "origin"
    /\ UNCHANGED <<ret, providers, miles, slot, attempt, waits, vals, calls, agg, tiers, rv,
                   cfg, origins_df, airports, modes, rng, ai, mi, mode_rv, window, k_ctx, comp,
                   per_mode_gc, per_airport_gc, exc, riskVars, ctxVars, qsiVars>>

GcdStep ==
    \/ GcdEnter
    \/ OriginNext
    \/ GcdReturn
    \/ AirportNext
    \/ DriveReturn
    \/ RideReturn
    \/ ParseSchedule
    \/ ContextMultiplier
    \/ ModeOk
    \/ ModeRaise
    \/ SoftminStep
    \/ AppendRow

----------------------------------------------------------------------------
(* Specification of a run of generalized_cost_delta *)

RoutingOff ==
    [enable_google |-> FALSE, enable_openrouteservice |-> FALSE, enable_mapbox |-> FALSE,
     enable_weather |-> FALSE, enable_events |-> FALSE,
     google_api_key |-> "k", ors_api_key |-> "", mapbox_api_key |-> "",
     owm_api_key |-> "k", ticketmaster_api_key |-> ""]

\* the provider sections a run is tried with: nothing enabled, Google, weather
BatchProviders ==
    {RoutingOff, [RoutingOff EXCEPT !.enable_google = TRUE],
     [RoutingOff EXCEPT !.enable_weather = TRUE]}

\* parking_daily of the reference run: LGA's daily rate is not a number
ParkingFull == [HVN |-> Num(1500), JFK |-> Num(4000), LGA |-> NaN, EWR |-> Num(3500)]

\* parking_daily tables: the reference table, and one without JFK
ParkingTables ==
    {ParkingFull, [HVN |-> ParkingFull.HVN, LGA |-> ParkingFull.LGA, EWR |-> ParkingFull.EWR]}

Stamp(h, m, z) == <<[hh |-> h, mm |-> m, tz |-> z]>>

ScheduleOk ==
    [t_depart_iso |-> Stamp(7, 0, "-04:00"),
     curb_windows |-> [HVN |-> [tmin |-> Stamp(7, 45, "-04:00"), tmax |-> Stamp(8, 30, "-04:00")],
                       JFK |-> [tmin |-> Stamp(8, 0, "-04:00"), tmax |-> Stamp(9, 30, "-04:00")],
                       LGA |-> [tmin |-> Stamp(8, 0, "-04:00"), tmax |-> Stamp(9, 0, "-04:00")]]]

\* schedules: well formed; departure missing; JFK's tmax out of range; JFK's
\* window without a zone; no window for JFK
Schedules ==
    {ScheduleOk,
     [ScheduleOk EXCEPT !.t_depart_iso = <<>>],
     [ScheduleOk EXCEPT !.curb_windows.JFK.tmax = Stamp(25, 0, "-04:00")],
     [ScheduleOk EXCEPT !.curb_windows.JFK.tmin = Stamp(8, 0, "")],
     [ScheduleOk EXCEPT !.curb_windows =
         [HVN |-> ScheduleOk.curb_windows.HVN, LGA |-> ScheduleOk.curb_windows.LGA]]}

\* attributes a hand-built config carries and load_config's dataclasses lack
OptionalAttrs == {"modes.rail.miss_slope", "risk.shocks"}

AirportLists ==
    {<<"HVN">>, <<"JFK">>, <<"HVN", "JFK">>, <<"HVN", "JFK", "LGA">>, <<"HVN", "JFK", "EWR">>,
     <<"HVN", "BDL">>}

ModeLists == {<<>>, <<"drive">>, <<"drive", "ride", "rail">>, <<"drive", "bus">>}

\* states the unseeded global generator may start in
RngSeeds == {0, 7}

MakeCfg(p, t, at, sc) ==
    [providers |-> p, parking_daily |-> t, attrs |-> at,
     t_depart_iso |-> sc.t_depart_iso, curb_windows |-> sc.curb_windows]

\* the reference run: nothing enabled, a complete hand-built config, a well-formed
\* schedule, HVN against JFK by car, generator state 0
Baseline ==
    [p |-> RoutingOff, t |-> ParkingFull, at |-> OptionalAttrs, sc |-> ScheduleOk,
     al |-> <<"HVN", "JFK">>, ml |-> <<"drive">>, seed |-> 0]

Differs(x, y) == IF x = y THEN 0 ELSE 1

\* the runs tried differ from the reference run in at most one of their inputs
OneAtATime(p, t, at, sc, al, ml, seed) ==
    Differs(p, Baseline.p) + Differs(t, Baseline.t) + Differs(at, Baseline.at)
    + Differs(sc, Baseline.sc) + Differs(al, Baseline.al) + Differs(ml, Baseline.ml)
    + Differs(seed, Baseline.seed) <= 1

TravelIdle ==
    /\ ret = "top"
    /\ providers = <<>>
    /\ miles = 0
    /\ slot = 1
    /\ attempt = 1
    /\ waits = <<>>
    /\ vals = <<>>
    /\ calls = <<>>
    /\ agg = <<>>
    /\ tiers = <<>>
    /\ rv = <<>>

BatchIdle ==
    /\ oi = 1
    /\ ai = 1
    /\ mi = 1
    /\ mode_rv = <<>>
    /\ window = DefaultWindow
    /\ k_ctx = 10000
    /\ comp = <<>>
    /\ per_mode_gc = <<>>
    /\ per_airport_gc = <<>>
    /\ rows = <<>>
    /\ exc = ""

RiskIdle ==
    /\ risk_in = <<>>
    /\ trials = <<>>

ContextIdle ==
    /\ ctx_in = <<>>
    /\ mults = <<>>
    /\ ctx_out = <<>>

QsiIdle ==
    /\ qsi_in = <<>>
    /\ qsi_out = <<>>
    /\ runs = <<>>

Init ==
    /\ pc = "gcd_entry"
    /\ \E p \in BatchProviders, t \in ParkingTables, at \in {{}, OptionalAttrs},
          sc \in Schedules, al \in AirportLists, ml \in ModeLists, seed \in RngSeeds :
          /\ OneAtATime(p, t, at, sc, al, ml, seed)
          /\ cfg = MakeCfg(p, t, at, sc)
          /\ airports = al
          /\ modes = ml
          /\ rng = seed
    /\ origins_df = [i \in 1..NumOrigins |-> i]
    /\ TravelIdle
    /\ BatchIdle
    /\ RiskIdle
    /\ ContextIdle
    /\ QsiIdle

Next ==
    \/ GcdStep
    \/ EstimateDriveStep

Spec == Init /\ [][Next]_vars

----------------------------------------------------------------------------
(* Specification of one call of estimate_drive_time_minutes *)

\* the caller receives the TravelRV
TopReturn ==
    /\ pc = "drive_ret"
    /\ ret = "top"
    /\ pc' = "done"
    /\ UNCHANGED <<ret, providers, miles, slot, attempt, waits, vals, calls, agg, tiers, rv,
                   batchVars, riskVars, ctxVars, qsiVars>>

BatchParked ==
    /\ cfg = MakeCfg(Baseline.p, Baseline.t, Baseline.at, Baseline.sc)
    /\ origins_df = <<>>
    /\ airports = <<>>
    /\ modes = <<>>
    /\ rng = 0
    /\ BatchIdle

TravelInit ==
    /\ pc = "drive_entry"
    /\ ret = "top"
    /\ providers \in {<<>>} \cup {<<p>> : p \in ProviderConfigs}
    /\ miles \in MilesSet
    /\ slot = 1
    /\ attempt = 1
    /\ waits = <<>>
    /\ vals = <<>>
    /\ calls = <<>>
    /\ agg = <<>>
    /\ tiers = <<>>
    /\ rv = <<>>
    /\ BatchParked
    /\ RiskIdle
    /\ ContextIdle
    /\ QsiIdle

TravelNext ==
    \/ EstimateDriveStep
    \/ TopReturn

SpecTravel == TravelInit /\ [][TravelNext]_vars

----------------------------------------------------------------------------
(* Specification of risk_with_shocks evaluated repeatedly under one fixed seed *)

\* minutes (x100) a sample may take
SampleValues == {0, 2000}

RECURSIVE SeqsOfLen(_, _)
SeqsOfLen(S, n) ==
    IF n = 0 THEN {<<>>}
    ELSE {Append(q, x) : q \in SeqsOfLen(S, n - 1), x \in S}

SeqsUpTo(S, n) == UNION {SeqsOfLen(S, k) : k \in 0..n}

\* cfg.risk.shocks dicts tried (probabilities in percent, minutes x100)
ShockDicts ==
    [incident_prob : {0, 10, 100}, incident_minutes : {0, 1000, 3000},
     rail_disruption_prob : {0, 50}, rail_disruption_minutes : {1000}]

\* evaluations made per input
MaxTrials == 2

RiskInit ==
    /\ pc = "risk"
    /\ risk_in \in [A : SeqsUpTo(SampleValues, MaxLen) \ {<<>>},
                    P : {<<>>, <<1500, 2500>>},
                    alpha : {<<1, 2>>, <<9, 10>>},
                    seed : RngSeeds]
    /\ trials = <<>>
    /\ TravelIdle
    /\ BatchParked
    /\ ContextIdle
    /\ QsiIdle

\* np.random.seed(seed); risk_with_shocks(cfg, A, P) with cfg.risk.shocks = sh
RunTrial ==
    /\ pc = "risk"
    /\ Len(trials) < MaxTrials
    /\ \E sh \in ShockDicts :
          trials' = Append(trials,
                           [shocks |-> sh,
                            risk |-> RiskWithShocks(risk_in.alpha, Params.rho_pct, sh,
                                                    risk_in.A, risk_in.P, risk_in.seed)])
    /\ UNCHANGED <<travelVars, batchVars, risk_in, ctxVars, qsiVars>>

RiskNext == RunTrial

SpecRisk == RiskInit /\ [][RiskNext]_vars

----------------------------------------------------------------------------
(* Specification of the Monte Carlo draws of one cell, lines 116-119 of          *)
(* generalized_cost_delta, evaluated repeatedly in one process                   *)

\* every state of the global generator: nothing in the package seeds it
RngStates == 0..15

\* means and standard deviations (minutes x100) handed to gaussian_samples
SampleMeans == {-1000, 0, 1200}
SampleSds == {0, 500, 2000}

SamplesInit ==
    /\ pc = "cell"
    /\ risk_in \in [mean : SampleMeans, sd : SampleSds, airport : {"HVN"}]
    /\ trials = <<>>
    /\ rng \in RngStates
    /\ cfg = MakeCfg(Baseline.p, Baseline.t, Baseline.at, Baseline.sc)
    /\ origins_df = <<>>
    /\ airports = <<>>
    /\ modes = <<>>
    /\ BatchIdle
    /\ TravelIdle
    /\ ContextIdle
    /\ QsiIdle

\* A = gaussian_samples(mean, sd); P = gaussian_samples(...); risk_with_shocks(cfg, A, P):
\* the generator is left where the draws ended
CellTrial ==
    /\ pc = "cell"
    /\ Len(trials) < MaxTrials
    /\ trials' = Append(trials,
                        [A |-> GaussianSamples(risk_in.mean, risk_in.sd, SampleSize, rng),
                         risk_delta |-> RiskDelta(risk_in.airport,
                                                  TravelRV(risk_in.mean, risk_in.sd),
                                                  10000, rng)])
    /\ rng' = RngSkip(rng, 2 * SampleSize
                           + (IF ShocksDraw(Params.shocks.incident_prob,
                                            Params.shocks.incident_minutes)
                              THEN SampleSize ELSE 0)
                           + (IF ShocksDraw(Params.shocks.rail_disruption_prob,
                                            Params.shocks.rail_disruption_minutes)
                              THEN SampleSize ELSE 0))
    /\ UNCHANGED <<travelVars, cfg, origins_df, airports, modes, oi, ai, mi, mode_rv, window, k_ctx, comp,
                   per_mode_gc, per_airport_gc, rows, exc, risk_in, ctxVars, qsiVars>>

SamplesNext == CellTrial

SpecSamples == SamplesInit /\ [][SamplesNext]_vars

----------------------------------------------------------------------------
(* Specification SpecCvar: cvar and cvar_minus_mean applied to a sample set *)

\* sample values (minutes x100) and the levels alpha tried
CvarValues == {-500, 0, 700, 2000}
CvarAlphas == {<<1, 10>>, <<1, 2>>, <<9, 10>>}

CvarInit ==
    /\ pc = "cvar"
    /\ risk_in \in [S : SeqsUpTo(CvarValues, MaxLen), alpha : CvarAlphas]
    /\ trials = <<>>
    /\ TravelIdle
    /\ BatchParked
    /\ ContextIdle
    /\ QsiIdle

\* cvar(S, alpha) and cvar_minus_mean(S, alpha)
CvarCall ==
    /\ pc = "cvar"
    /\ trials' = <<[cvar |-> Cvar(risk_in.S, risk_in.alpha),
                    cvar_minus_mean |-> CvarMinusMean(risk_in.S, risk_in.alpha)]>>
    /\ pc' = "cvar_done"
    /\ UNCHANGED <<ret, providers, miles, slot, attempt, waits, vals, calls, agg, tiers, rv,
                   batchVars, risk_in, ctxVars, qsiVars>>

CvarNext == CvarCall

SpecCvar == CvarInit /\ [][CvarNext]_vars

----------------------------------------------------------------------------
(* Specification SpecContext: one call of aggregate_context_multiplier.    *)
(* Multipliers are in percent; the returned product has 1.0 as 10000.      *)

\* the ProviderConfig fields aggregate_context_multiplier reads
ContextConfigs ==
    [enable_weather : BOOLEAN, enable_events : BOOLEAN,
     owm_api_key : {"", "k"}, ticketmaster_api_key : {"", "k"}]

\* what OpenWeatherMap observes: wind speed (m/s), rain, snow, visibility (m, 0 when
\* not reported); <<>> when the request or the parsing raises
WindSpeeds == {-10, 0, 20, 60}
Observations ==
    {<<>>} \cup {<<o>> : o \in [wind : WindSpeeds, rain : BOOLEAN, snow : BOOLEAN,
                                vis : {0, 1000, 10000}]}

\* what Ticketmaster reports as page.totalElements; <<>> when the request raises
EventTotals == {<<>>, <<0>>, <<10>>, <<50>>, <<100>>}

\* np.clip(x, lo, hi)
Clip(x, lo, hi) == Max2(lo, Min2(x, hi))

\* the weather multiplier without the clip
WeatherContextMultiplier_Unclipped(obs) ==
    IF obs = <<>> THEN 100
    ELSE LET w   == obs[1]
             vis == IF w.vis = 0 THEN 10000 ELSE w.vis
         IN  100 + 2 * w.wind + (IF w.rain THEN 30 ELSE 0) + (IF w.snow THEN 50 ELSE 0)
                 + (IF vis < 2000 THEN 20 ELSE 0)

\* weather_context_multiplier: 1.0 + 0.02*wind + 0.3*rain + 0.5*snow + 0.2 below 2000 m,
\* clipped to [1.0, 2.0]; 1.0 on any exception
WeatherContextMultiplier(obs) ==
    IF obs = <<>> THEN 100
    ELSE LET w   == obs[1]
             vis == IF w.vis = 0 THEN 10000 ELSE w.vis
         IN  Clip(100 + 2 * w.wind + (IF w.rain THEN 30 ELSE 0) + (IF w.snow THEN 50 ELSE 0)
                      + (IF vis < 2000 THEN 20 ELSE 0),
                  100, 200)

\* events_context_multiplier: steps at 10, 50 and 100 events; 1.0 on any exception
EventsContextMultiplier(total) ==
    IF total = <<>> THEN 100
    ELSE IF total[1] >= 100 THEN 130
    ELSE IF total[1] >= 50 THEN 115
    ELSE IF total[1] >= 10 THEN 105
    ELSE 100

\* float(np.prod(mults)), mults in percent, the product with 1.0 as 10000
RECURSIVE ContextProd(_)
ContextProd(m) == IF m = <<>> THEN 10000 ELSE (Head(m) * ContextProd(Tail(m))) \div 100

WeatherOn(p) == p.enable_weather /\ p.owm_api_key # ""
EventsOn(p) == p.enable_events /\ p.ticketmaster_api_key # ""

ContextInit ==
    /\ pc = "ctx_entry"
    /\ ctx_in \in [providers : ContextConfigs, weather : Observations, events : EventTotals]
    /\ mults = <<>>
    /\ ctx_out = <<>>
    /\ TravelIdle
    /\ BatchParked
    /\ RiskIdle
    /\ QsiIdle

\* mults = [1.0]
ContextEnter ==
    /\ pc = "ctx_entry"
    /\ mults' = <<100>>
    /\ pc' = "ctx_weather"
    /\ UNCHANGED <<ret, providers, miles, slot, attempt, waits, vals, calls, agg, tiers, rv,
                   batchVars, riskVars, ctx_in, ctx_out, qsiVars>>

\* if providers.enable_weather and providers.owm_api_key: mults.append(...)
ContextWeather ==
    /\ pc = "ctx_weather"
    /\ mults' = IF WeatherOn(ctx_in.providers)
                THEN Append(mults, WeatherContextMultiplier(ctx_in.weather))
                ELSE mults
    /\ pc' = "ctx_events"
    /\ UNCHANGED <<ret, providers, miles, slot, attempt, waits, vals, calls, agg, tiers, rv,
                   batchVars, riskVars, ctx_in, ctx_out, qsiVars>>

\* if providers.enable_events and providers.ticketmaster_api_key: mults.append(...)
ContextEvents ==
    /\ pc = "ctx_events"
    /\ mults' = IF EventsOn(ctx_in.providers)
                THEN Append(mults, EventsContextMultiplier(ctx_in.events))
                ELSE mults
    /\ pc' = "ctx_prod"
    /\ UNCHANGED <<ret, providers, miles, slot, attempt, waits, vals, calls, agg, tiers, rv,
                   batchVars, riskVars, ctx_in, ctx_out, qsiVars>>

\* return float(np.prod(mults))
ContextReturn ==
    /\ pc = "ctx_prod"
    /\ ctx_out' = <<ContextProd(mults)>>
    /\ pc' = "ctx_done"
    /\ UNCHANGED <<ret, providers, miles, slot, attempt, waits, vals, calls, agg, tiers, rv,
                   batchVars, riskVars, ctx_in, mults, qsiVars>>

ContextNext ==
    \/ ContextEnter
    \/ ContextWeather
    \/ ContextEvents
    \/ ContextReturn

SpecContext == ContextInit /\ [][ContextNext]_vars

----------------------------------------------------------------------------
(* QSI+ (qsi.py).  Factors, weights and scores are fixed-point numbers with *)
(* 1.0 as 10000; the argument of exp is in the same unit and is taken at a  *)
(* resolution of 0.01.  Segment and state weights are in tenths, rates in   *)
(* percent, prices in dollars, generalized costs in cents.                  *)

\* e^n for whole n, n in -10..2
ExpWhole(n) ==
    CASE n <= -10 -> 0
      [] n = -9 -> 1
      [] n = -8 -> 3
      [] n = -7 -> 9
      [] n = -6 -> 25
      [] n = -5 -> 67
      [] n = -4 -> 183
      [] n = -3 -> 498
      [] n = -2 -> 1353
      [] n = -1 -> 3679
      [] n = 0 -> 10000
      [] n = 1 -> 27183
      [] n = 2 -> 73891

\* e^(t/10) and e^(h/100) for a digit
ExpTenths == <<10000, 11052, 12214, 13499, 14918, 16487, 18221, 20138, 22255, 24596>>
ExpHundredths == <<10000, 10101, 10202, 10305, 10408, 10513, 10618, 10725, 10833, 10942>>

\* the product of two fixed-point numbers
Mul(a, b) == (a * b) \div 10000

\* np.exp(x): x = n + t/10 + h/100 after rounding down to a hundredth
Exp(x) ==
    LET c == x \div 100
        n == c \div 100
        r == c % 100
    IN  Mul(Mul(ExpWhole(n), ExpTenths[(r \div 10) + 1]), ExpHundredths[(r % 10) + 1])

\* (1/mu) * ln(1 + exp(-mu * gap)) in cents for cfg.qsi.muA = 0.2 per dollar,
\* tabulated at gaps of 0, 5, 10, 20 and 30 dollars
SoftminAccessCorr(gap) ==
    IF gap < 500 THEN 347
    ELSE IF gap < 1000 THEN 157
    ELSE IF gap < 2000 THEN 63
    ELSE IF gap < 3000 THEN 9
    ELSE IF gap < 4000 THEN 1
    ELSE 0

\* softmin_access(cfg, per_mode_gc): -1/mu * log(sum(exp(-mu * vals))), two at a time
RECURSIVE SoftminAccess(_)
SoftminAccess(v) ==
    IF Len(v) = 1 THEN v[1]
    ELSE LET rest == SoftminAccess(Tail(v))
         IN  Min2(v[1], rest) - SoftminAccessCorr(Max2(v[1], rest) - Min2(v[1], rest))

\* access_factor(cfg, gc_soft) = exp(-betaA * gc_soft), betaA = 0.03 per dollar
AccessFactor(gc_soft) == Exp(-(3 * gc_soft))

\* cfg.qsi.hub_risks.get(hub, {}).get(key, default); an absent hub or key is <<>>
HubRisk(q, hub, key, default) ==
    IF q.hub_risks[hub] # <<>> /\ q.hub_risks[hub][1][key] # <<>>
    THEN q.hub_risks[hub][1][key][1]
    ELSE default

\* next((seg.<field> for seg in cfg.segments if seg.name == s), default)
SegmentField(q, s, field, default) ==
    LET hits == SelectSeq(q.segments, LAMBDA seg : seg.name = s)
    IN  IF hits = <<>> THEN default ELSE hits[1][field]

\* layover_quality with alpha_short = 0.03, alpha_long = 0.01, alpha_s = 0.02 (sk in tenths)
LayoverQuality(k) ==
    300 * Max2(k.L_star - k.layover_minutes, 0)
        + 100 * Max2(k.layover_minutes - k.U_star, 0) + 20 * k.sk

\* hod_penalty: 0.1 for an arrival before 06:00, 0.05 for a departure before 06:00
\* or after 22:59
HodPenalty(k) ==
    LET d == IsoParse(k.tdep_iso)[1] \div 60
        a == IsoParse(k.tarr_iso)[1] \div 60
    IN  (IF a < 6 THEN 1000 ELSE 0) + (IF d < 6 \/ d > 22 THEN 500 ELSE 0)

\* line 79: pi_mis = max(0, min(1, 1 - exp(-max(Lk - mct, 0) / 20)))
PiMis(q, k) ==
    LET mct == HubRisk(q, k.hub, "MCT", 40)
    IN  Max2(0, Min2(10000, 10000 - Exp(-(500 * Max2(k.layover_minutes - mct, 0)))))

\* reliability_terms
ReliabilityTerms(q, k) ==
    LET cancel == 100 * (100 - k.cancel_rate)
        rel    == Mul(Mul(cancel, 10000 - PiMis(q, k)),
                      Exp(-(200 * Max2(k.delay_pos_mean, 0) + 100 * Max2(k.delay_var, 0))))
        Wx     == HubRisk(q, k.hub, "WxRisk", 2)
        Cap    == HubRisk(q, k.hub, "CapacityRisk", 3)
    IN  Mul(rel, Exp(-(20 * Wx + 20 * Cap)))

\* reprotect with the number of alternates taken as it comes
Reprotect_SignedAlternates(q, k) ==
    Mul(Exp(-(200 * Max2(k.reprotect_time_mean, 0))),
        10000 + 100 * q.xi * k.n_alternates_window)

\* reprotect: exp(-beta_rec * max(t, 0)) * (1 + xi * max(n, 0)), xi in hundredths
Reprotect(q, k) ==
    Mul(Exp(-(200 * Max2(k.reprotect_time_mean, 0))),
        10000 + 100 * q.xi * Max2(k.n_alternates_window, 0))

\* product_score: exp(betaQ * (0.5 pitch + 0.2 wifi + 0.2 widebody + 0.1 priority))
ProductScore(k) ==
    Exp(100 * k.seat_pitch + 4 * k.wifi_rel + 40 * k.is_widebody + 20 * k.is_priority)

\* perks
Perks(k) == Exp(100 * (k.price_rebates + k.has_lounge + k.has_precheck))

\* an effective price that a state's added delay raises by a dollar a minute
EffectivePrice_DelayAware(k, state) ==
    k.price_mean * state.price_multiplier + 100 * (k.price_ancillary - k.price_rebates)
    + 100 * state.delay_mean_add

\* price_availability: the effective price in cents, 1.0 or 0.3 times exp(-betaP * eff)
EffectivePrice(k, state) ==
    k.price_mean * state.price_multiplier + 100 * (k.price_ancillary - k.price_rebates)

PriceAvailability(q, k, s, state) ==
    LET betaP  == SegmentField(q, s, "beta_P", 100)
        p_star == SegmentField(q, s, "p_star", 300)
        n_req  == SegmentField(q, s, "seats_threshold", 2)
        eff    == EffectivePrice(k, state)
        avail  == IF eff <= 100 * p_star /\ k.seats_available >= n_req THEN 10000 ELSE 3000
    IN  Mul(avail, Exp(-((betaP * eff) \div 100)))

\* duplicates_scarcity
DuplicatesScarcity(k) ==
    Mul(10000 \div (1 + Max2(k.dupcount, 0)), Exp(-(20 * Max2(k.loadfactor_risk, 0))))

\* bank_alignment: 1.0 without bank times, else exp(-beta_B * nearest bank in minutes)
RECURSIVE MinDiff(_, _)
MinDiff(arr, bts) ==
    LET d == Abs(arr - IsoParse(<<bts[1]>>)[1])
    IN  IF Len(bts) = 1 THEN d ELSE Min2(d, MinDiff(arr, Tail(bts)))

BankAlignment(q, k) ==
    LET bts == IF q.hub_risks[k.hub] # <<>> THEN q.hub_risks[k.hub][1].bank_times ELSE <<>>
    IN  IF bts = <<>> THEN 10000
        ELSE Exp(-(200 * MinDiff(IsoParse(k.tarr_iso)[1], bts)))

\* iops: exp(-beta_MCT * max(mct - Lk, 0)) * exp(-beta_bag * max(bag_miss_prob, 0))
Iops(q, k) ==
    LET mct == HubRisk(q, k.hub, "MCT", 40)
    IN  Mul(Exp(-(300 * Max2(mct - k.layover_minutes, 0))), Exp(-(2 * Max2(k.bag_miss_prob, 0))))

\* the factors itinerary_weight multiplies, in the order of line 160
Factors(q, k, s, state) ==
    LET betaT == SegmentField(q, s, "beta_P", 100)
    IN  <<Exp(-(betaT * (k.block_minutes + k.layover_minutes))),
          Exp(-((2 * LayoverQuality(k)) \div 100)),
          Exp(-((2 * HodPenalty(k)) \div 100)),
          ReliabilityTerms(q, k),
          Reprotect(q, k),
          ProductScore(k),
          Perks(k),
          PriceAvailability(q, k, s, state),
          DuplicatesScarcity(k),
          BankAlignment(q, k),
          Iops(q, k)>>

RECURSIVE MulAll(_)
MulAll(f) == IF f = <<>> THEN 10000 ELSE Mul(MulAll(SubSeq(f, 1, Len(f) - 1)), f[Len(f)])

\* itinerary_weight(cfg, k, segment, state)
ItineraryWeight(q, k, s, state) == MulAll(Factors(q, k, s, state))

----------------------------------------------------------------------------
(* Specification SpecQsi: one call of qsi_plus_for_market *)

\* an itinerary of the reference market, scaled to an hour of block time
BaseItinerary ==
    [hub |-> "CLT", block_minutes |-> 60, layover_minutes |-> 60, L_star |-> 45,
     U_star |-> 120, sk |-> 2, tdep_iso |-> Stamp(7, 0, "-04:00"),
     tarr_iso |-> Stamp(13, 40, "-05:00"), cancel_rate |-> 3, delay_pos_mean |-> 12,
     delay_var |-> 25, reprotect_time_mean |-> 30, n_alternates_window |-> 3,
     seat_pitch |-> 31, wifi_rel |-> 9, is_widebody |-> 0, is_priority |-> 0,
     has_lounge |-> 0, has_precheck |-> 1, price_mean |-> 80, price_ancillary |-> 25,
     price_rebates |-> 10, seats_available |-> 5, dupcount |-> 1, loadfactor_risk |-> 2,
     bag_miss_prob |-> 5]

\* the itinerary lists tried: none; the base itinerary; layovers below, at and above
\* the connect times; a cancelled, a red-eye and a dear, sold-out itinerary through ATL
ItineraryLists ==
    {<<>>,
     <<BaseItinerary>>,
     <<[BaseItinerary EXCEPT !.layover_minutes = 30],
       [BaseItinerary EXCEPT !.layover_minutes = 40, !.n_alternates_window = -10]>>,
     <<BaseItinerary, [BaseItinerary EXCEPT !.layover_minutes = 100]>>,
     <<[BaseItinerary EXCEPT !.layover_minutes = 130],
       [BaseItinerary EXCEPT !.cancel_rate = 100]>>,
     <<[BaseItinerary EXCEPT !.hub = "ATL", !.price_mean = 350, !.seats_available = 1,
                             !.tarr_iso = Stamp(5, 10, "-07:00"), !.is_widebody = 1],
       [BaseItinerary EXCEPT !.cancel_rate = 0, !.dupcount = 0]>>}

\* cfg.qsi.segments: none configured; two segments; the second with a negative weight
SegmentsStd ==
    <<[name |-> "domestic", weight |-> 10, beta_P |-> 100, p_star |-> 300, seats_threshold |-> 2],
      [name |-> "intl", weight |-> 5, beta_P |-> 150, p_star |-> 200, seats_threshold |-> 6]>>

SegmentConfigs ==
    {<<>>, SegmentsStd, [SegmentsStd EXCEPT ![2].weight = -5]}

\* the segments argument
SegmentArgs == {<<>>, <<"intl">>, <<"domestic", "intl">>}

\* cfg.qsi.states: none configured; weights 0.6 and 0.2; the same states with weight 0
StatesStd ==
    <<[name |-> "base", weight |-> 6, price_multiplier |-> 100, delay_mean_add |-> 0,
       delay_var_mult |-> 100],
      [name |-> "surge", weight |-> 2, price_multiplier |-> 120, delay_mean_add |-> 5,
       delay_var_mult |-> 150]>>

StateConfigs ==
    {<<>>, StatesStd, [StatesStd EXCEPT ![1].weight = 0, ![2].weight = 0]}

\* cfg.qsi.xi in hundredths
XiValues == {-50, 0, 15}

\* cfg.qsi.hub_risks: empty, or an entry for CLT without WxRisk
HubRiskConfigs ==
    {[CLT |-> <<>>, ATL |-> <<>>],
     [CLT |-> <<[MCT |-> <<60>>, WxRisk |-> <<>>, CapacityRisk |-> <<4>>,
                bank_times |-> <<[hh |-> 12, mm |-> 0, tz |-> ""],
                                 [hh |-> 13, mm |-> 30, tz |-> ""]>>]>>,
      ATL |-> <<>>]}

\* per_mode_gc: the dict in insertion order
AccessDicts ==
    {<<[mode |-> "drive", gc |-> 3000]>>,
     <<[mode |-> "drive", gc |-> 3000], [mode |-> "rail", gc |-> 4200]>>}

\* lines 170-172: the configured states, or the single base state
StatesOf(q) ==
    IF q.states = <<>>
    THEN <<[name |-> "base", weight |-> 10, price_multiplier |-> 100, delay_mean_add |-> 0,
            delay_var_mult |-> 100]>>
    ELSE q.states

\* lines 174-176: s["weight"] / max(sw, 1e-6) as an exact fraction
SumWeights(states) == SumSeq([i \in 1..Len(states) |-> states[i].weight])

\* the configured weight, not divided by the sum
Normalized_Raw(w, sw) == Reduce(<<w, 10>>)

Normalized(w, sw) == IF sw > 0 THEN Reduce(<<w, sw>>) ELSE <<1000000 * w, 1>>

\* line 184: w_s * st["weight"] * itinerary_weight(cfg, k, s, st), w_s in tenths
Term(q, s, nw, w) == (SegmentField(q, s, "weight", 10) * nw[1] * w) \div (10 * nw[2])

QsiInit ==
    /\ pc = "qsi_entry"
    /\ qsi_in \in [per_mode_gc : AccessDicts, itineraries : ItineraryLists,
                    segments : SegmentArgs,
                    qsi : [segments : SegmentConfigs, states : StateConfigs, xi : XiValues,
                           hub_risks : HubRiskConfigs]]
    /\ qsi_out = <<>>
    /\ runs = <<>>
    /\ TravelIdle
    /\ BatchParked
    /\ RiskIdle
    /\ ContextIdle

\* lines 166-179: the access factor, the normalized state mixture, W_sum = 0.0
QsiEnter ==
    /\ pc = "qsi_entry"
    /\ LET gc_soft == SoftminAccess([i \in 1..Len(qsi_in.per_mode_gc) |->
                                       qsi_in.per_mode_gc[i].gc])
           states  == StatesOf(qsi_in.qsi)
           sw      == SumWeights(states)
       IN  qsi_out' = <<[gc_soft |-> gc_soft,
                         A |-> AccessFactor(gc_soft),
                         weights |-> [i \in 1..Len(states) |-> Normalized(states[i].weight, sw)],
                         si |-> 1, ti |-> 1, ki |-> 1,
                         terms |-> <<>>,
                         W_sum |-> 0,
                         QSI_plus |-> <<>>]>>
    /\ pc' = "qsi_loop"
    /\ UNCHANGED <<ret, providers, miles, slot, attempt, waits, vals, calls, agg, tiers, rv,
                   batchVars, riskVars, ctxVars, qsi_in, runs>>

\* the loops of lines 180-184 have a next iteration
QsiMore ==
    /\ qsi_in.itineraries # <<>>
    /\ qsi_out[1].si <= Len(qsi_in.segments)

\* line 184: one iteration of the innermost loop
QsiAccumulate ==
    /\ pc = "qsi_loop"
    /\ QsiMore
    /\ LET o      == qsi_out[1]
           states == StatesOf(qsi_in.qsi)
           s      == qsi_in.segments[o.si]
           st     == states[o.ti]
           k      == qsi_in.itineraries[o.ki]
           f      == Factors(qsi_in.qsi, k, s, st)
           w      == ItineraryWeight(qsi_in.qsi, k, s, st)
           lastK  == o.ki = Len(qsi_in.itineraries)
           lastT  == o.ti = Len(states)
       IN  qsi_out' = <<[o EXCEPT
                           !.terms = Append(@, [si |-> o.si, ti |-> o.ti, ki |-> o.ki,
                                                pi_mis |-> PiMis(qsi_in.qsi, k),
                                                factors |-> f, weight |-> w]),
                           !.W_sum = @ + Term(qsi_in.qsi, s, o.weights[o.ti], w),
                           !.ki = IF lastK THEN 1 ELSE @ + 1,
                           !.ti = IF lastK THEN (IF lastT THEN 1 ELSE @ + 1) ELSE @,
                           !.si = IF lastK /\ lastT THEN @ + 1 ELSE @]>>
    /\ UNCHANGED <<travelVars, batchVars, riskVars, ctxVars, qsi_in, runs>>

\* lines 186-187
QsiReturn ==
    /\ pc = "qsi_loop"
    /\ ~QsiMore
    /\ qsi_out' = <<[qsi_out[1] EXCEPT !.QSI_plus = <<Mul(qsi_out[1].A, qsi_out[1].W_sum)>>]>>
    /\ pc' = "qsi_done"
    /\ UNCHANGED <<ret, providers, miles, slot, attempt, waits, vals, calls, agg, tiers, rv,
                   batchVars, riskVars, ctxVars, qsi_in, runs>>

QsiNext ==
    \/ QsiEnter
    \/ QsiAccumulate
    \/ QsiReturn

SpecQsi == QsiInit /\ [][QsiNext]_vars

----------------------------------------------------------------------------
(* Specification SpecRunQsi: runs of run_qsi (qsi/cli.py), one after another, *)
(* each in a process of its own                                              *)

\* parse_qsi({}): the QSI+ section of a config that has none
QsiDefaults ==
    [segments |-> <<>>, states |-> <<>>, xi |-> 15, hub_risks |-> [CLT |-> <<>>, ATL |-> <<>>]]

\* lines 27-38: the two itineraries scored when no CSV is given
DefaultItineraries ==
    <<[hub |-> "CLT", block_minutes |-> 240, layover_minutes |-> 60, L_star |-> 45,
       U_star |-> 120, sk |-> 2, tdep_iso |-> Stamp(7, 0, "-04:00"),
       tarr_iso |-> Stamp(13, 40, "-05:00"), cancel_rate |-> 3, delay_pos_mean |-> 12,
       delay_var |-> 25, reprotect_time_mean |-> 180, n_alternates_window |-> 3,
       seat_pitch |-> 31, wifi_rel |-> 9, is_widebody |-> 0, is_priority |-> 0,
       has_lounge |-> 0, has_precheck |-> 1, price_mean |-> 280, price_ancillary |-> 25,
       price_rebates |-> 10, seats_available |-> 5, dupcount |-> 1, loadfactor_risk |-> 2,
       bag_miss_prob |-> 5],
      [hub |-> "ATL", block_minutes |-> 320, layover_minutes |-> 75, L_star |-> 45,
       U_star |-> 120, sk |-> 3, tdep_iso |-> Stamp(8, 10, "-04:00"),
       tarr_iso |-> Stamp(14, 50, "-07:00"), cancel_rate |-> 4, delay_pos_mean |-> 15,
       delay_var |-> 40, reprotect_time_mean |-> 220, n_alternates_window |-> 4,
       seat_pitch |-> 32, wifi_rel |-> 8, is_widebody |-> 1, is_priority |-> 1,
       has_lounge |-> 1, has_precheck |-> 1, price_mean |-> 420, price_ancillary |-> 35,
       price_rebates |-> 20, seats_available |-> 3, dupcount |-> 0, loadfactor_risk |-> 3,
       bag_miss_prob |-> 7]>>

\* qsi_plus_for_market(cfg, per_mode_gc, itineraries, segments) as one evaluation;
\* an empty per_mode_gc has softmin +inf and access factor exp(-inf) = 0
QsiPlusForMarket(q, per_mode, itineraries, segments) ==
    LET A      == IF per_mode = <<>> THEN 0
                  ELSE AccessFactor(SoftminAccess([i \in 1..Len(per_mode) |-> per_mode[i].gc]))
        states == StatesOf(q)
        sw     == SumWeights(states)
        W_sum  == SumSeq([s \in 1..Len(segments) |->
                    SumSeq([t \in 1..Len(states) |->
                      SumSeq([k \in 1..Len(itineraries) |->
                        Term(q, segments[s], Normalized(states[t].weight, sw),
                             ItineraryWeight(q, itineraries[k], segments[s], states[t]))])])])
    IN  [A |-> A, W_sum |-> W_sum, QSI_plus |-> Mul(A, W_sum)]

\* the configurations run: the reference run to HVN; HVN parking at 25 dollars a
\* day; all three modes; Google routing enabled; a config as load_config builds it
RunBase == [Baseline EXCEPT !.al = <<"HVN">>]

RunConfigs ==
    {RunBase,
     [RunBase EXCEPT !.t = [ParkingFull EXCEPT !.HVN = Num(2500)]],
     [RunBase EXCEPT !.ml = <<"drive", "ride", "rail">>],
     [RunBase EXCEPT !.p = [RoutingOff EXCEPT !.enable_google = TRUE]],
     [RunBase EXCEPT !.at = {}]}

\* number of runs compared
MaxRuns == 2

RunQsiInit ==
    /\ pc = "run_entry"
    /\ cfg = MakeCfg(Baseline.p, Baseline.t, Baseline.at, Baseline.sc)
    /\ origins_df = <<>>
    /\ airports = <<>>
    /\ modes = <<>>
    /\ rng = 0
    /\ BatchIdle
    /\ TravelIdle
    /\ RiskIdle
    /\ ContextIdle
    /\ QsiIdle

\* lines 14-18: load_config, the middle origin, generalized_cost_delta(cfg, mid,
\* cfg.region.airports, cfg.region.modes) is entered
RunQsiEnter ==
    /\ pc = "run_entry"
    /\ Len(runs) < MaxRuns
    /\ \E c \in RunConfigs, seed \in RngSeeds :
          /\ cfg' = MakeCfg(c.p, c.t, c.at, c.sc)
          /\ airports' = c.al
          /\ modes' = c.ml
          /\ rng' = seed
    /\ origins_df' = <<(NumOrigins \div 2) + 1>>
    /\ pc' = "gcd_entry"
    /\ ret' = "top"
    /\ providers' = <<>>
    /\ miles' = 0
    /\ slot' = 1
    /\ attempt' = 1
    /\ waits' = <<>>
    /\ vals' = <<>>
    /\ calls' = <<>>
    /\ agg' = <<>>
    /\ tiers' = <<>>
    /\ rv' = <<>>
    /\ oi' = 1
    /\ ai' = 1
    /\ mi' = 1
    /\ mode_rv' = <<>>
    /\ window' = DefaultWindow
    /\ k_ctx' = 10000
    /\ comp' = <<>>
    /\ per_mode_gc' = <<>>
    /\ per_airport_gc' = <<>>
    /\ rows' = <<>>
    /\ exc' = ""
    /\ UNCHANGED <<riskVars, ctxVars, qsiVars>>

\* lines 19-43: per_mode_gc = {m: 30.0 for m in cfg.region.modes}, the default
\* itineraries, segs = ["domestic", "intl"], qsi_plus_for_market, the summary is written
RunQsiScore ==
    /\ pc = "gcd_done"
    /\ LET access == [i \in 1..Len(modes) |-> [mode |-> modes[i], gc |-> 3000]]
       IN  runs' = Append(runs,
                          [exc |-> "", res |-> rows, computed |-> per_mode_gc,
                           access |-> access,
                           out |-> <<QsiPlusForMarket(QsiDefaults, access, DefaultItineraries,
                                                      <<"domestic", "intl">>)>>])
    /\ pc' = "run_entry"
    /\ UNCHANGED <<ret, providers, miles, slot, attempt, waits, vals, calls, agg, tiers, rv,
                   batchVars, riskVars, ctxVars, qsi_in, qsi_out>>

\* line 18: an exception of generalized_cost_delta ends the run
RunQsiRaise ==
    /\ pc = "raised"
    /\ runs' = Append(runs, [exc |-> exc, res |-> <<>>, computed |-> <<>>, access |-> <<>>,
                             out |-> <<>>])
    /\ pc' = "run_entry"
    /\ UNCHANGED <<ret, providers, miles, slot, attempt, waits, vals, calls, agg, tiers, rv,
                   batchVars, riskVars, ctxVars, qsi_in, qsi_out>>

RunQsiNext ==
    \/ RunQsiEnter
    \/ GcdStep
    \/ EstimateDriveStep
    \/ RunQsiScore
    \/ RunQsiRaise

SpecRunQsi == RunQsiInit /\ [][RunQsiNext]_vars

----------------------------------------------------------------------------
(* Specification SpecQsiPair: calls of qsi_plus_for_market one after another on *)
(* configurations that differ only in the delay fields of their states         *)

\* cfg.qsi.states with two states of the same weight and price multiplier whose
\* delay fields differ
StatesTwin ==
    <<StatesStd[1],
      [StatesStd[1] EXCEPT !.name = "storm", !.delay_mean_add = 20, !.delay_var_mult = 150]>>

\* QSIState.delay_mean_add (minutes) and QSIState.delay_var_mult (percent)
DelayMeanAdds == {0, 5, 20}
DelayVarMults == {100, 150}

QsiPairInit ==
    /\ pc = "qsi_entry"
    /\ qsi_in \in [per_mode_gc : {<<[mode |-> "drive", gc |-> 3000]>>},
                    itineraries : ItineraryLists,
                    segments : SegmentArgs,
                    qsi : [segments : {<<>>, SegmentsStd}, states : {StatesStd, StatesTwin},
                           xi : {15}, hub_risks : HubRiskConfigs]]
    /\ qsi_out = <<>>
    /\ runs = <<>>
    /\ TravelIdle
    /\ BatchParked
    /\ RiskIdle
    /\ ContextIdle

\* the call has returned; the next call gets the same arguments and a config in
\* which the delay fields of one state are set anew
QsiAgain ==
    /\ pc = "qsi_done"
    /\ Len(runs) + 1 < MaxRuns
    /\ runs' = Append(runs, [input |-> qsi_in, out |-> qsi_out[1]])
    /\ \E i \in 1..Len(qsi_in.qsi.states), d \in DelayMeanAdds, v \in DelayVarMults :
          qsi_in' = [qsi_in EXCEPT !.qsi.states[i].delay_mean_add = d,
                                   !.qsi.states[i].delay_var_mult = v]
    /\ qsi_out' = <<>>
    /\ pc' = "qsi_entry"
    /\ UNCHANGED <<ret, providers, miles, slot, attempt, waits, vals, calls, agg, tiers, rv,
                   batchVars, riskVars, ctxVars>>

QsiPairNext ==
    \/ QsiEnter
    \/ QsiAccumulate
    \/ QsiReturn
    \/ QsiAgain

SpecQsiPair == QsiPairInit /\ [][QsiPairNext]_vars

----------------------------------------------------------------------------
(* Properties of aggregate_drive_minutes and estimate_drive_time_minutes *)

\* aggregate_drive_minutes has returned to estimate_drive_time_minutes
AggReturned == providers # <<>> /\ pc \in {"network", "drive_ret", "done"}

\* the enabled providers, in the order aggregate_drive_minutes lists them
EnabledNames(p) == SelectSeq(ProviderNames, LAMBDA n : ProviderEnabled(p, n))

\* no call produced minutes: each raised ProviderError or returned None
NoEstimate == \A i \in 1..Len(calls) : calls[i].raised \/ calls[i].value = <<>>

\* C2: when no enabled provider yields an estimate (none enabled, or each call
\* raised ProviderError or returned None), aggregate_drive_minutes returns None:
\* neither 0.0 nor an exception
C2_NoneWhenNoEstimate ==
    (AggReturned /\ NoEstimate) => (agg = <<>> /\ exc = "")

C2_Witness ==
    /\ AggReturned
    /\ NoEstimate
    /\ Len(calls) = 3
    /\ calls[1].raised
    /\ ~calls[2].raised
    /\ agg = <<>>

\* the calls that returned minutes, and the minutes they returned
Succeeded == SelectSeq(calls, LAMBDA c : ~c.raised /\ c.value # <<>>)
EstimatesOfSucceeded == [i \in 1..Len(Succeeded) |-> Succeeded[i].value[1]]

\* every enabled provider was called once, in the order Google, ORS, Mapbox
QueriedInOrder == [i \in 1..Len(calls) |-> calls[i].provider] = EnabledNames(providers[1])

\* C3: when a provider call has failed, every enabled provider has still been
\* queried in the order Google, OpenRouteService, Mapbox, and the result is the
\* blend of exactly the estimates of the providers that succeeded
C3_FailureIsolated ==
    (AggReturned /\ \E i \in 1..Len(calls) : calls[i].raised)
        => (QueriedInOrder /\ agg = AggregateResult(EstimatesOfSucceeded))

\* the collected estimates lie between lo and hi
AllBetween(v, lo, hi) == \A i \in 1..Len(v) : lo <= v[i] /\ v[i] <= hi

\* the result is the 75th percentile of the collected estimates, which lies
\* between the smallest and the largest of them
PercentileOfCollected ==
    /\ vals # <<>>
    /\ agg = <<Quantile75(vals)>>
    /\ \E i, j \in 1..Len(vals) :
          /\ AllBetween(vals, vals[i], vals[j])
          /\ vals[i] <= agg[1]
          /\ agg[1] <= vals[j]
          /\ (vals[i] = vals[j] => agg[1] = vals[i])

\* C12: when at least one provider succeeds, aggregate_drive_minutes returns the
\* 75th percentile of the collected estimates, between the smallest and the
\* largest of them, and exactly v when they all equal v
C12_PercentileWhenSucceeded ==
    (AggReturned /\ Succeeded # <<>>) => PercentileOfCollected

\* C23: every estimate an enabled provider returned successfully and non-null, an
\* estimate of 0.0 minutes included, is in the list aggregate_drive_minutes takes
\* the percentile of
C23_EveryEstimateCollected == AggReturned => vals = EstimatesOfSucceeded

\* C4 as the specification words it: a call that ends in ProviderError has made
\* the first attempt and three retries
C4_RetriedThreeTimes ==
    \A i \in 1..Len(calls) : calls[i].raised => calls[i].attempts = 1 + 3

\* C4: a provider call makes at most three attempts in all (two retries), waiting
\* 0.5 s and then 1 s; a call that returns makes no further attempt; ProviderError
\* surfaces only after the third attempt has failed
C4_ThreeAttemptsInAll ==
    /\ attempt <= 3
    /\ \A i \in 1..Len(calls) :
          LET c == calls[i]
          IN  /\ c.attempts = Len(c.waits) + 1
              /\ c.attempts <= 3
              /\ c.raised => (c.attempts = 3 /\ c.waits = <<500, 1000>>)
              /\ \A k \in 1..Len(c.waits) - 1 : c.waits[k + 1] = 2 * c.waits[k]
    /\ \A i, j \in 1..Len(calls) : calls[i].provider = calls[j].provider => i = j

C4_Witness ==
    /\ Len(calls) = 2
    /\ calls[1].raised
    /\ calls[1].attempts = 3
    /\ ~calls[2].raised
    /\ calls[2].attempts = 2
    /\ calls[2].value # <<>>

\* C5: estimate_drive_time_minutes always returns a TravelRV; it comes from the
\* provider blend when providers were passed and the blend is not None, else from
\* the road network, and from the geodesic heuristic only after the road network
\* was tried and failed
C5_TierOrder ==
    pc \in {"drive_ret", "done"} =>
       /\ Len(rv) = 1
       /\ IF providers # <<>> /\ agg # <<>>
          THEN /\ tiers = <<"provider">>
               /\ rv[1] = [mean |-> agg[1], sd |-> Max2(500, (25 * agg[1]) \div 100)]
          ELSE LET before == IF providers # <<>> THEN <<"provider">> ELSE <<>>
               IN  \/ /\ tiers = before \o <<"network">>
                      /\ rv[1].mean \in NetworkMinutes
                      /\ rv[1].sd = Max2(500, (25 * rv[1].mean) \div 100)
                   \/ /\ tiers = before \o <<"network", "geodesic">>
                      /\ rv[1].mean = (miles * 600) \div 35
                      /\ rv[1].sd = Max2(500, (30 * rv[1].mean) \div 100)

C5_Witness ==
    /\ pc = "done"
    /\ tiers = <<"provider", "network", "geodesic">>
    /\ \E i \in 1..Len(calls) : calls[i].raised
    /\ rv = <<GeodesicRV(miles)>>

----------------------------------------------------------------------------
(* Properties of risk_with_shocks *)

\* every shock probability and every shock duration of s is at most that of t
ShocksLeq(s, t) ==
    /\ s.incident_prob <= t.incident_prob
    /\ s.incident_minutes <= t.incident_minutes
    /\ s.rail_disruption_prob <= t.rail_disruption_prob
    /\ s.rail_disruption_minutes <= t.rail_disruption_minutes

\* both evaluations consume the same uniform draws: apply_shocks returns early,
\* without drawing, in both or in neither
SameDraws(s, t) ==
    /\ ShocksDraw(s.incident_prob, s.incident_minutes)
           = ShocksDraw(t.incident_prob, t.incident_minutes)
    /\ ShocksDraw(s.rail_disruption_prob, s.rail_disruption_minutes)
           = ShocksDraw(t.rail_disruption_prob, t.rail_disruption_minutes)

\* C8: with the samples and the random draws fixed, raising any shock probability
\* or shock duration never lowers the value risk_with_shocks returns
C8_MonotoneInShocks ==
    \A i, j \in 1..Len(trials) :
        (ShocksLeq(trials[i].shocks, trials[j].shocks) /\ SameDraws(trials[i].shocks, trials[j].shocks))
            => FracLeq(trials[i].risk, trials[j].risk)

----------------------------------------------------------------------------
(* Properties of generalized_cost_delta *)

\* a pass of the mode loop meets a mode without a travel estimate or an airport
\* missing from the parking table
CellFailing ==
    /\ mode_rv # <<>>
    /\ mi <= Len(modes)
    /\ ModeFailure(cfg, modes[mi], Airport, mode_rv) = "KeyError"

\* C1: a failure while computing one (origin, airport, mode) cell, such as an
\* airport missing from the parking table or a mode without a travel estimate,
\* never ends generalized_cost_delta in an exception
C1_CellFailureNotFatal == CellFailing => (pc # "raised" /\ exc = "")

\* no routing provider is enabled with a key
RoutingDisabled(p) == EnabledNames(p) = <<>>

\* the drive estimate of the current pair has just been stored
DriveStored == pc = "drive_entry" /\ ret = "ride" /\ "drive" \in DOMAIN mode_rv

\* C6 as the specification words it: with all providers disabled the drive
\* estimate is the geodesic heuristic at 35 mph, whatever the road network returns
C6_AlwaysGeodesic ==
    (DriveStored /\ RoutingDisabled(cfg.providers)) =>
        /\ mode_rv["drive"].mean = (miles * 600) \div 35
        /\ mode_rv["drive"].sd = Max2(500, (30 * mode_rv["drive"].mean) \div 100)

\* C6: with all providers disabled no provider is called and the road network is
\* tried first; the drive estimate is the road-network time with
\* sd = max(5, 0.25 * mean) when that succeeds, and the geodesic heuristic
\* mean = miles / 35 * 60, sd = max(5, 0.30 * mean) only when it fails
C6_GeodesicOnlyAfterNetworkFails ==
    (DriveStored /\ RoutingDisabled(cfg.providers)) =>
        /\ calls = <<>>
        /\ agg = <<>>
        /\ \/ /\ tiers = <<"provider", "network">>
              /\ mode_rv["drive"].mean \in NetworkMinutes
              /\ mode_rv["drive"].sd = Max2(500, (25 * mode_rv["drive"].mean) \div 100)
           \/ /\ tiers = <<"provider", "network", "geodesic">>
              /\ mode_rv["drive"].mean = (miles * 600) \div 35
              /\ mode_rv["drive"].sd = Max2(500, (30 * mode_rv["drive"].mean) \div 100)

C6_Witness ==
    /\ DriveStored
    /\ RoutingDisabled(cfg.providers)
    /\ tiers = <<"provider", "network", "geodesic">>
    /\ Airport = "HVN"
    /\ mode_rv["drive"] = [mean |-> 480, sd |-> 500]

\* C7: once the estimates of a pair are stored, the rideshare estimate is the
\* drive estimate of that pair with the mean times 1.05 and the sd times 1.2
C7_RideFromDrive ==
    (pc = "schedule" /\ {"drive", "ride"} \subseteq DOMAIN mode_rv) =>
        /\ mode_rv["ride"].mean = (105 * mode_rv["drive"].mean) \div 100
        /\ mode_rv["ride"].sd = (12 * mode_rv["drive"].sd) \div 10

\* the finite blended costs of the airports other than HVN
FiniteOthers(gc) == {gc[a].v : a \in {x \in DOMAIN gc \ {"HVN"} : gc[x].k = "num"}}

LeastOf(S) == CHOOSE x \in S : \A y \in S : x <= y

\* C9: in every row delta_gc is the blended cost of HVN minus the least blended
\* cost among the other requested airports (those whose cost is NaN are passed
\* over), and it is NaN exactly when HVN's cost is not finite (HVN not requested
\* included) or no other airport has a finite cost
C9_DeltaGc ==
    \A i \in 1..Len(rows) :
        LET gc   == rows[i].GC
            home == IF "HVN" \in DOMAIN gc THEN gc["HVN"] ELSE NaN
        IN  rows[i].delta_gc =
               IF home.k = "num" /\ FiniteOthers(gc) # {}
               THEN Num(home.v - LeastOf(FiniteOthers(gc)))
               ELSE NaN

C9_Witness ==
    \E i \in 1..Len(rows) :
        /\ DOMAIN rows[i].GC = {"HVN", "JFK", "LGA"}
        /\ rows[i].GC["LGA"] = NaN
        /\ rows[i].delta_gc.k = "num"

\* a timestamp that is missing or has a field out of range
Unparsable(ts) == ts = <<>> \/ ts[1].hh \notin 0..23 \/ ts[1].mm \notin 0..59

\* the departure time or the curb window of airport a is missing or malformed
MalformedSchedule(c, a) ==
    \/ Unparsable(c.t_depart_iso)
    \/ a \notin DOMAIN c.curb_windows
    \/ Unparsable(c.curb_windows[a].tmin)
    \/ Unparsable(c.curb_windows[a].tmax)

\* C10: when the departure time or the airport's tmin/tmax is missing or
\* malformed, no error is raised and the computation goes on with the default
\* window tmin = 60, tmax = 120 minutes after departure
C10_DefaultWindow ==
    (pc = "context" /\ MalformedSchedule(cfg, Airport)) =>
        /\ window = [t_depart_min |-> 0, tmin_min |-> 6000, tmax_min |-> 12000]
        /\ exc = ""

C10_Witness ==
    /\ pc = "context"
    /\ Airport = "JFK"
    /\ cfg.t_depart_iso # <<>>
    /\ "JFK" \in DOMAIN cfg.curb_windows
    /\ cfg.curb_windows["JFK"].tmax[1].hh = 25
    /\ window.tmax_min = 12000

\* a config as load_config builds it: RiskConfig has the fields alpha, rho and
\* multipliers, RailModeConfig has no miss_slope, and klass(**data) accepts no others
LoadedByLoadConfig(c) == c.attrs = {}

\* C21: every configuration field generalized_cost_delta reads is defined on a
\* config built by load_config (cfg.risk.shocks and cfg.modes.rail.miss_slope in
\* particular), so a run on a loaded config never ends in a missing-attribute
\* failure and reaches the end of the batch
C21_LoadedConfigCompletes ==
    LoadedByLoadConfig(cfg) => ~(pc = "raised" /\ exc = "AttributeError")

\* a pass of the mode loop that stored a cost (lines 101-123)
ModeStored == pc = "mode" /\ pc' = "mode" /\ mi' = mi + 1

\* cash + timeval + sched + xfer + comfort + carbon of a Components value
NonRiskTerms(cp) ==
    ExtAdd(cp.cash, Num(cp.timeval + cp.sched + cp.xfer + cp.comfort + cp.carbon))

\* C22: the per-mode generalized cost a pass of the mode loop stores is cash +
\* timeval + sched + xfer + comfort + carbon plus risk_with_shocks * party value
\* of time * legs * context multiplier (the samples of lines 116-117 are drawn
\* after those of compute_components_for_mode), and it is the same whatever the
\* value of the analytic risk field of the Components
C22_ShockAwareRiskOnly ==
    [][ModeStored =>
          LET m  == modes[mi]
              rd == RiskDelta(Airport, mode_rv[m], k_ctx, RngSkip(rng, 3 * SampleSize))
          IN  /\ per_mode_gc'[m] = ExtAdd(NonRiskTerms(comp'), Num(rd))
              /\ \A r \in {0, comp'.risk + 100} :
                     CompAdjTotal([comp' EXCEPT !.risk = r], rd) = per_mode_gc'[m]]_vars

\* drive, ride and rail are all costed for JFK; the analytic risk of the last mode
\* is not zero and neither is its shock-aware term
C22_Witness ==
    /\ pc = "mode"
    /\ modes = <<"drive", "ride", "rail">>
    /\ mi = 4
    /\ Airport = "JFK"
    /\ DOMAIN per_mode_gc = {"drive", "ride", "rail"}
    /\ comp.risk > 0
    /\ per_mode_gc["rail"].k = "num"
    /\ per_mode_gc["rail"].v > NonRiskTerms(comp).v
    /\ per_mode_gc["rail"].v # NonRiskTerms(comp).v + comp.risk

----------------------------------------------------------------------------
(* Properties of the Monte Carlo draws *)

\* C11: two evaluations of a cell with the same configuration and the same travel
\* estimate draw the same samples and produce the same risk term
C11_Reproducible ==
    risk_in.mean > 0 => \A i, j \in 1..Len(trials) : trials[i] = trials[j]

\* C15: every sample gaussian_samples returns with the default lower bound is
\* >= 0, whatever the mean (negative means included) and the sd
C15_SamplesNonNegative ==
    \A t \in 1..Len(trials) : \A i \in 1..Len(trials[t].A) : trials[t].A[i] >= 0

C15_Witness ==
    /\ risk_in.mean < 0
    /\ Len(trials) >= 1
    /\ \E i \in 1..Len(trials[1].A) : trials[1].A[i] = 0
    /\ \E i \in 1..Len(trials[1].A) : trials[1].A[i] > 0

----------------------------------------------------------------------------
(* Properties of aggregate_context_multiplier (specification SpecContext)  *)

\* what each signal contributed to mults; 100 when its block was skipped
WeatherPart == IF WeatherOn(ctx_in.providers) THEN mults[2] ELSE 100
EventsPart == IF EventsOn(ctx_in.providers) THEN mults[Len(mults)] ELSE 100

\* C13: aggregate_context_multiplier returns the product of the weather and the
\* event multiplier; each enabled multiplier is in [1.0, 2.0], a disabled, key-less
\* or failing signal contributes exactly 1.0, so the result is in [1.0, 4.0] and is
\* 1.0 when both signals are disabled or fail
C13_ContextProduct ==
    pc = "ctx_done" =>
        /\ ctx_out = <<WeatherPart * EventsPart>>
        /\ WeatherPart >= 100 /\ WeatherPart <= 200
        /\ EventsPart >= 100 /\ EventsPart <= 200
        /\ (~WeatherOn(ctx_in.providers) \/ ctx_in.weather = <<>>) => WeatherPart = 100
        /\ (~EventsOn(ctx_in.providers) \/ ctx_in.events = <<>>) => EventsPart = 100
        /\ ctx_out[1] >= 10000 /\ ctx_out[1] <= 40000
        /\ ((~WeatherOn(ctx_in.providers) \/ ctx_in.weather = <<>>)
              /\ (~EventsOn(ctx_in.providers) \/ ctx_in.events = <<>>)) => ctx_out = <<10000>>

\* snow in a 60 m/s wind (2.7 before the clip) during 100 events: 2.0 * 1.3
C13_Witness ==
    /\ pc = "ctx_done"
    /\ WeatherOn(ctx_in.providers)
    /\ EventsOn(ctx_in.providers)
    /\ ctx_in.weather # <<>>
    /\ WeatherContextMultiplier_Unclipped(ctx_in.weather) > 200
    /\ ctx_in.events = <<100>>
    /\ mults = <<100, 200, 130>>
    /\ ctx_out = <<26000>>

----------------------------------------------------------------------------
(* Properties of the TravelRV estimates (specification Spec) *)

\* the percentage of the mean a drive tier uses for sd, read off an estimate long
\* enough (120 minutes, 70 miles) for the floor of 5 minutes not to bind
TierFraction(t) ==
    LET r == CASE t = "provider" -> ProviderRV(12000)
               [] t = "network"  -> NetworkRV(12000)
               [] t = "geodesic" -> GeodesicRV(700)
    IN  (100 * r.sd) \div r.mean

\* the tier that produced the drive estimate just returned
LastTier == tiers[Len(tiers)]

\* C14: every TravelRV the drive, ride and rail estimators return has sd >= 5.0
\* whichever tier produced it, and the fraction of the mean the drive tiers use
\* for sd does not decrease from provider to network to geodesic
C14_SdFloor ==
    /\ \A m \in DOMAIN mode_rv : mode_rv[m].sd >= 500
    /\ rv # <<>> => rv[1].sd >= 500
    /\ pc = "drive_ret" =>
          rv[1].sd = Max2(500, (TierFraction(LastTier) * rv[1].mean) \div 100)
    /\ TierFraction("provider") <= TierFraction("network")
    /\ TierFraction("network") <= TierFraction("geodesic")

\* New Haven to HVN: 0.20 and 0.30 of the means are below 5 minutes, the floor binds
C14_Witness ==
    /\ pc = "schedule"
    /\ Airport = "HVN"
    /\ LastTier = "geodesic"
    /\ (30 * mode_rv["drive"].mean) \div 100 < 500
    /\ mode_rv["drive"].sd = 500
    /\ mode_rv["ride"].sd = 600
    /\ (20 * mode_rv["rail"].mean) \div 100 < 500
    /\ mode_rv["rail"].sd = 500

----------------------------------------------------------------------------
(* Properties of cvar (specification SpecCvar) *)

\* the alpha-quantile of the samples under test
QuantileOfS == QuantileFrac(risk_in.S, risk_in.alpha[1], risk_in.alpha[2])

\* the positions of the samples at or above the quantile
AtOrAbove == {i \in 1..Len(risk_in.S) : risk_in.S[i] * QuantileOfS[2] >= QuantileOfS[1]}

RECURSIVE SumAt(_, _)
SumAt(s, idx) ==
    IF idx = {} THEN 0
    ELSE LET i == CHOOSE j \in idx : TRUE IN s[i] + SumAt(s, idx \ {i})

\* C16: for a nonempty sample set and alpha in (0,1), cvar is the mean of the
\* samples at or above the alpha-quantile and hence >= that quantile; for an
\* empty sample set cvar and cvar_minus_mean are 0
C16_CvarIsTailMean ==
    pc = "cvar_done" =>
        IF risk_in.S = <<>>
        THEN trials[1].cvar[1] = 0 /\ trials[1].cvar_minus_mean[1] = 0
        ELSE /\ AtOrAbove # {}
             /\ trials[1].cvar[1] * Cardinality(AtOrAbove)
                  = SumAt(risk_in.S, AtOrAbove) * trials[1].cvar[2]
             /\ FracLeq(QuantileOfS, trials[1].cvar)

\* a tail of two samples out of three whose mean is above the quantile
C16_Witness ==
    /\ pc = "cvar_done"
    /\ Len(risk_in.S) = 3
    /\ Cardinality(AtOrAbove) = 2
    /\ ~FracLeq(trials[1].cvar, QuantileOfS)

----------------------------------------------------------------------------
(* Properties of the QSI+ engine (specification SpecQsi) *)

\* the itinerary weights evaluated so far, and the itinerary of each
TermsDone == IF qsi_out = <<>> THEN <<>> ELSE qsi_out[1].terms
ItineraryOf(t) == qsi_in.itineraries[t.ki]

\* the minimum connect time reliability_terms uses for the hub of an itinerary
MctOf(k) == HubRisk(qsi_in.qsi, k.hub, "MCT", 40)

\* pi_mis is a probability
PiMisInRange == \A i \in 1..Len(TermsDone) : TermsDone[i].pi_mis \in 0..10000

\* C17: pi_mis is in [0,1] and saturates at 1 as the layover shrinks below the
\* minimum connect time of the hub: it does not increase when the layover grows,
\* and a layover at or below the minimum connect time gives the highest value
C17_MisconnectFallsWithLayover ==
    /\ PiMisInRange
    /\ \A i, j \in 1..Len(TermsDone) :
          LET a == ItineraryOf(TermsDone[i])
              b == ItineraryOf(TermsDone[j])
          IN  (a.hub = b.hub /\ (a.layover_minutes <= b.layover_minutes
                                  \/ a.layover_minutes <= MctOf(a)))
                  => TermsDone[i].pi_mis >= TermsDone[j].pi_mis

\* the preconditions C18 names: cancel_rate in [0,1] and xi >= 0
RatesInRange ==
    /\ qsi_in.qsi.xi >= 0
    /\ \A i \in 1..Len(qsi_in.itineraries) : qsi_in.itineraries[i].cancel_rate \in 0..100

\* every factor and every itinerary weight computed so far is non-negative
FactorsNonNegative ==
    \A i \in 1..Len(TermsDone) :
        /\ \A n \in 1..Len(TermsDone[i].factors) : TermsDone[i].factors[n] >= 0
        /\ TermsDone[i].weight >= 0

\* no configured segment or state has a negative weight
WeightsNonNegative ==
    /\ \A i \in 1..Len(qsi_in.qsi.segments) : qsi_in.qsi.segments[i].weight >= 0
    /\ \A i \in 1..Len(qsi_in.qsi.states) : qsi_in.qsi.states[i].weight >= 0

\* C18 as the specification words it: with cancel_rate in [0,1] and xi >= 0 every
\* factor of itinerary_weight is non-negative, so itinerary_weight >= 0 and W_sum >= 0
C18_AllNonNegative ==
    (qsi_out # <<>> /\ RatesInRange) => (FactorsNonNegative /\ qsi_out[1].W_sum >= 0)

\* C18: with cancel_rate in [0,1] and xi >= 0 every factor of itinerary_weight and
\* itinerary_weight itself are non-negative; W_sum >= 0 when, in addition, no
\* configured segment or state weight is negative
C18_NonNegativeGivenWeights ==
    (qsi_out # <<>> /\ RatesInRange) =>
        /\ FactorsNonNegative
        /\ WeightsNonNegative => qsi_out[1].W_sum >= 0

\* a finished call over an itinerary with a negative number of alternates
C18_Witness ==
    /\ pc = "qsi_done"
    /\ RatesInRange
    /\ WeightsNonNegative
    /\ qsi_in.qsi.xi > 0
    /\ \E i \in 1..Len(TermsDone) :
          /\ ItineraryOf(TermsDone[i]).n_alternates_window < 0
          /\ TermsDone[i].weight > 0
    /\ Len(TermsDone) >= 4
    /\ qsi_out[1].W_sum > 0

\* the sum of the normalized state weights, an exact fraction
RECURSIVE FracSum(_)
FracSum(f) == IF f = <<>> THEN <<0, 1>> ELSE FracAdd(Head(f), FracSum(Tail(f)))

\* the sum over the requested segments, the states and the itineraries of
\* segment weight * normalized state weight * itinerary_weight
MarketSum ==
    LET q      == qsi_in.qsi
        states == StatesOf(q)
        sw     == SumWeights(states)
    IN  SumSeq([s \in 1..Len(qsi_in.segments) |->
          SumSeq([t \in 1..Len(states) |->
            SumSeq([k \in 1..Len(qsi_in.itineraries) |->
              Term(q, qsi_in.segments[s], Normalized(states[t].weight, sw),
                   ItineraryWeight(q, qsi_in.itineraries[k], qsi_in.segments[s],
                                   states[t]))])])])

\* the parts of C19 other than the sum of the state weights
MarketScore ==
    /\ qsi_in.qsi.states = <<>> => qsi_out[1].weights = <<<<1, 1>>>>
    /\ qsi_out[1].W_sum = MarketSum
    /\ qsi_out[1].QSI_plus = <<Mul(qsi_out[1].A, qsi_out[1].W_sum)>>
    /\ qsi_in.itineraries = <<>> => (qsi_out[1].W_sum = 0 /\ qsi_out[1].QSI_plus = <<0>>)

\* C19 as the specification words it: the normalized state weights sum to 1 (a
\* single base state of weight 1 when none is configured), W_sum is the sum over
\* segments, states and itineraries of segment weight * normalized state weight *
\* itinerary_weight, QSI_plus = A * W_sum, and both are 0 without itineraries
C19_WeightsSumToOne ==
    pc = "qsi_done" => (FracSum(qsi_out[1].weights) = <<1, 1>> /\ MarketScore)

\* C19: the normalized state weights sum to 1 when the configured weights have a
\* positive sum, and are the configured weights divided by 1e-6 otherwise; W_sum is
\* the sum over segments, states and itineraries of segment weight * normalized
\* state weight * itinerary_weight, QSI_plus = A * W_sum, both 0 without itineraries
C19_WeightsSumToOneIfPositive ==
    pc = "qsi_done" =>
        /\ IF SumWeights(StatesOf(qsi_in.qsi)) > 0
           THEN FracSum(qsi_out[1].weights) = <<1, 1>>
           ELSE \A i \in 1..Len(qsi_out[1].weights) :
                    qsi_out[1].weights[i] = <<1000000 * StatesOf(qsi_in.qsi)[i].weight, 1>>
        /\ MarketScore

\* two segments, the two configured states (0.6 and 0.2 become 3/4 and 1/4) and two
\* itineraries
C19_Witness ==
    /\ pc = "qsi_done"
    /\ qsi_out[1].weights = <<<<3, 4>>, <<1, 4>>>>
    /\ Len(qsi_in.segments) = 2
    /\ Len(qsi_in.itineraries) = 2
    /\ Len(TermsDone) = 8
    /\ qsi_out[1].W_sum > 0
    /\ qsi_out[1].QSI_plus[1] > 0

----------------------------------------------------------------------------
(* Properties of run_qsi (specification SpecRunQsi) *)

\* two finished runs over the same modes whose computed per-mode costs differ
CostsDiffer(a, b) ==
    /\ a.exc = ""
    /\ b.exc = ""
    /\ DOMAIN a.computed = DOMAIN b.computed
    /\ \E m \in DOMAIN a.computed : a.computed[m] # b.computed[m]

----------------------------------------------------------------------------
(* Properties of the state mixture (specification SpecQsiPair) *)

\* the calls that have returned: the earlier ones and the current one
CallsReturned ==
    runs \o (IF pc = "qsi_done" THEN <<[input |-> qsi_in, out |-> qsi_out[1]]>> ELSE <<>>)

\* two states that agree in everything but delay_mean_add and delay_var_mult
SameButDelayFields(x, y) ==
    /\ x.name = y.name
    /\ x.weight = y.weight
    /\ x.price_multiplier = y.price_multiplier

\* two calls whose arguments and configuration differ at most in the delay fields
\* of the states
SameButDelays(a, b) ==
    /\ a.per_mode_gc = b.per_mode_gc
    /\ a.itineraries = b.itineraries
    /\ a.segments = b.segments
    /\ a.qsi.segments = b.qsi.segments
    /\ a.qsi.xi = b.qsi.xi
    /\ a.qsi.hub_risks = b.qsi.hub_risks
    /\ Len(a.qsi.states) = Len(b.qsi.states)
    /\ \A i \in 1..Len(a.qsi.states) : SameButDelayFields(a.qsi.states[i], b.qsi.states[i])

\* the itinerary weights of a call, in the order they were computed
WeightsOf(c) == [n \in 1..Len(c.out.terms) |-> c.out.terms[n].weight]

\* the delay fields of the states of a call
DelaysOf(c) ==
    [i \in 1..Len(c.input.qsi.states) |->
        <<c.input.qsi.states[i].delay_mean_add, c.input.qsi.states[i].delay_var_mult>>]

\* C24: itinerary_weight depends on the state only through price_multiplier: within
\* a call two states with the same price_multiplier give the same factors and the
\* same weight to every itinerary and segment, and two calls that differ only in
\* delay_mean_add or delay_var_mult of their states compute the same weights, the
\* same W_sum and the same QSI_plus
C24_DelayFieldsUnused ==
    /\ \A i, j \in 1..Len(TermsDone) :
          LET x == TermsDone[i]
              y == TermsDone[j]
          IN  (/\ x.si = y.si
               /\ x.ki = y.ki
               /\ StatesOf(qsi_in.qsi)[x.ti].price_multiplier
                    = StatesOf(qsi_in.qsi)[y.ti].price_multiplier)
              => (x.weight = y.weight /\ x.factors = y.factors)
    /\ \A i, j \in 1..Len(CallsReturned) :
          LET a == CallsReturned[i]
              b == CallsReturned[j]
          IN  SameButDelays(a.input, b.input)
              => /\ WeightsOf(a) = WeightsOf(b)
                 /\ a.out.W_sum = b.out.W_sum
                 /\ a.out.QSI_plus = b.out.QSI_plus

\* two calls have returned whose states differ in both delay fields; the second
\* call has two states of one price multiplier and different delays, two segments
\* and two itineraries, and its score is positive
C24_Witness ==
    /\ pc = "qsi_done"
    /\ Len(runs) = 1
    /\ SameButDelays(runs[1].input, qsi_in)
    /\ \E i \in 1..Len(qsi_in.qsi.states) :
          /\ runs[1].input.qsi.states[i].delay_mean_add # qsi_in.qsi.states[i].delay_mean_add
          /\ runs[1].input.qsi.states[i].delay_var_mult # qsi_in.qsi.states[i].delay_var_mult
    /\ Len(qsi_in.qsi.states) = 2
    /\ qsi_in.qsi.states[1].price_multiplier = qsi_in.qsi.states[2].price_multiplier
    /\ qsi_in.qsi.states[1].delay_mean_add # qsi_in.qsi.states[2].delay_mean_add
    /\ Len(qsi_in.segments) = 2
    /\ Len(TermsDone) = 8
    /\ \A n \in 1..Len(TermsDone) : TermsDone[n].weight > 0
    /\ qsi_out[1].W_sum > 0
    /\ qsi_out[1].QSI_plus[1] > 0

====
